---- MODULE Spec2Model ----
(***************************************************************************)
(* The product reconciliation core of the Audico product management        *)
(* system: ProductComparator (comparison_engine/product_comparator.py),    *)
(* driven either by the comparison endpoint or by WorkflowManager          *)
(* (workflow_engine/workflow_manager.py), with DataValidator               *)
(* (pdf_processor/data_validator.py) in between.                           *)
(*                                                                         *)
(* Units.  Similarities are integers in thousandths (700 is 0.7); the      *)
(* difflib ratios the code obtains are inputs, each a multiple of 0.1, so  *)
(* every weighted sum is exact.  Prices are integers in cents.  A          *)
(* percentage is the exact fraction num/den.                               *)
(***************************************************************************)
EXTENDS Integers, Sequences, FiniteSets, TLC

VARIABLES
    pc,                 \* where compare_products stands: idle, record, search, classify, done
    caller,             \* who called compare_products: none, api, workflow, fast
    pdf_products,       \* the list given to compare_products
    i,                  \* index of the record being processed (enumerate, 1-based)
    search_terms,       \* _search_single_product: the terms of the current record
    term_idx,           \* _search_single_product: position in the term loop (1-based)
    all_matches,        \* _search_single_product: analyses collected so far
    comparison_results, \* compare_products: one ComparisonResult per record
    missing_products,   \* compare_products: records classified missing
    price_differences,  \* compare_products: outcomes classified price_different
    exact_matches,      \* compare_products: outcomes classified match_found
    search_errors,      \* compare_products: messages of the record-level handler
    report,             \* the dict compare_products returned
    replies,            \* history: adapter replies to the current record's terms
    calls,              \* history: terms sent to the adapter for the current record
    delays,             \* history: indices of the records followed by time.sleep
    raised,             \* history: indices of the records whose processing raised
    tolerance,          \* the comparator's price_tolerance_percent
    wf_pc,              \* where _execute_workflow stands
    workflow,           \* the WorkflowResult of the workflow
    options,            \* the options of the workflow
    temp_file,          \* the temporary PDF of the upload step: none, exists, deleted
    parsing_result,     \* what _step_parse_products returned
    submitted,          \* history: the lists given to create_products_batch
    input,              \* the arguments of a call checked on its own (a function, an endpoint)
    output,             \* what that call returned
    now,                \* app.py: datetime.now(), in seconds since the start
    last_comparison_result, \* app.py: the cached result of /api/products/compare
    last_update_time,   \* app.py: when that result was stored
    served,             \* history: the number of requests to /api/products/compare
    job,                \* async_processor.py: self.jobs[job_id]
    worker_pc,          \* async_processor.py: where the thread of _process_file stands
    observed            \* history: what the last get_status of the poller saw

engine_vars == <<pc, caller, pdf_products, i, search_terms, term_idx, all_matches,
                 comparison_results, missing_products, price_differences,
                 exact_matches, search_errors, report, replies, calls,
                 delays, raised>>

workflow_vars == <<wf_pc, workflow, options, temp_file, parsing_result, submitted>>

call_vars == <<input, output>>

cache_vars == <<now, last_comparison_result, last_update_time, served>>

job_vars == <<job, worker_pc, observed>>

service_vars == <<cache_vars, job_vars>>

vars == <<engine_vars, tolerance, workflow_vars, call_vars, service_vars>>

----------------------------------------------------------------------------
(* Bounds of the model *)

MaxBatch == 2
MaxParsed == 1

(* Program constants *)

name_similarity_threshold == 700
price_tolerance_percent == 5
search_result_floor == 300
max_search_terms == 5
name_words_in_term == 3
meaningful_min_length == 3

----------------------------------------------------------------------------
(* Values *)

\* Python's None where a string is expected
None == "<None>"

Min(a, b) == IF a < b THEN a ELSE b
Abs(a) == IF a < 0 THEN 0 - a ELSE a
Take(s, n) == SubSeq(s, 1, Min(n, Len(s)))

RECURSIVE Join(_)
\* ' '.join(words)
Join(words) ==
    IF words = <<>> THEN ""
    ELSE IF Len(words) = 1 THEN words[1]
    ELSE words[1] \o " " \o Join(Tail(words))

\* a call checked on its own: its arguments, and its return value once it
\* has returned
NoInput == [call |-> "none"]
NotReturned == [returned |-> FALSE]
Returned(value) == [returned |-> TRUE, value |-> value]

----------------------------------------------------------------------------
(* Inputs: the records given to compare_products *)

\* A price as it sits in the record's dict: a number (in cents), no 'price'
\* key at all, or a value float() rejects (None, 'N/A')
Number(cents) == [kind |-> "number", cents |-> cents]
AbsentPrice == [kind |-> "absent", cents |-> 0]
UnparseablePrice == [kind |-> "text", cents |-> 0]

\* A record: name is the word list name.split() yields (<<>> for ''), model
\* and brand are '' when the key is missing or empty
Record(name, model, brand, price) ==
    [name |-> name, model |-> model, brand |-> brand, price |-> price]

\* Records a client of the comparison endpoint may post
ApiRecords ==
    { Record(<<"Shure", "SM58", "Microphone">>, "SM58", "", Number(100000)),
      Record(<<>>, "HS8", "", Number(0)),
      Record(<<"JBL", "Flip">>, "", "", UnparseablePrice),
      Record(<<>>, "", "", AbsentPrice) }

\* Records DataParser yields: brand is always 'Denon', the name is never
\* empty, and a record with a model may come without a price
\*   'AVR-X580BT'         -> name and model 'AVR-X580BT', no price
\*   '7.2 Ch. 95W R8990'  -> name '7.2 Ch. 95W 0', no model, price 899.0
ParsedRecords ==
    { Record(<<"AVR-X580BT">>, "AVR-X580BT", "Denon", AbsentPrice),
      Record(<<"7.2", "Ch.", "95W", "0">>, "", "Denon", Number(89900)) }

PdfProducts == ApiRecords \cup ParsedRecords

RECURSIVE SeqsUpTo(_, _)
\* every list of at most n elements of S
SeqsUpTo(S, n) ==
    IF n = 0 THEN {<<>>}
    ELSE LET shorter == SeqsUpTo(S, n - 1)
         IN shorter \cup {Append(s, x) : s \in {t \in shorter : Len(t) = n - 1}, x \in S}

----------------------------------------------------------------------------
(* Inputs: what the catalog search adapter answers *)

\* A catalog product as the remote API delivers it: price is the raw text,
\* one character per element
OcProduct(name, model, price) == [name |-> name, model |-> model, price |-> price]

\* A search hit: the product and the two ratios difflib's SequenceMatcher
\* gives for it against the record at hand (lower-cased name and model)
Hit(product, name_ratio, model_ratio) ==
    [product |-> product, name_ratio |-> name_ratio, model_ratio |-> model_ratio]

price_R1050 == <<"R", "1", ",", "0", "5", "0", ".", "0", "0">>
price_1050_01 == <<"1", "0", "5", "0", ".", "0", "1">>
price_R_1050 == <<"R", " ", "1", ",", "0", "5", "0">>
price_950 == <<"9", "5", "0", ".", "0", "0">>
price_bad == <<"1", ".", "2", ".", "3">>

\* against the record 'Shure SM58 Microphone' / 'SM58' at R1000.00:
\*   overall 1.0, price 5 % off            overall 1.0, price 5.001 % off
\*   overall 0.7 (no model), 5 % off       overall 0.57
\*   overall 0.3                           overall 0.38, name None
\*   a price float() rejects: the analysis falls back to all zeros
hit_exact == Hit(OcProduct("Shure SM58 Microphone", "SM58", price_R1050), 1000, 1000)
hit_pricey == Hit(OcProduct("Shure SM58 Microphone", "SM58", price_1050_01), 1000, 1000)
hit_name_only == Hit(OcProduct("Shure SM58 Microphone", "", price_R_1050), 1000, 0)
hit_low == Hit(OcProduct("Shure SM57", "SM57", price_950), 600, 500)
hit_noise == Hit(OcProduct("Denon Home 150", "DH150", price_950), 300, 300)
hit_null_name == Hit(OcProduct(None, "SM57", price_950), 200, 800)
hit_bad_price == Hit(OcProduct("Shure SM58 Microphone", "SM58", price_bad), 1000, 1000)

Hits == {hit_exact, hit_pricey, hit_name_only, hit_low, hit_noise,
         hit_null_name, hit_bad_price}

\* the result lists of a successful reply: empty, one hit, or two hits
\* with the better one last
ResultLists == {<<>>} \cup {<<h>> : h \in Hits} \cup {<<hit_low, hit_exact>>}

\* search_products either raises or returns a dict
Raises == [kind |-> "raise", success |-> FALSE, results |-> <<>>]
Reply(success, results) == [kind |-> "return", success |-> success, results |-> results]

AdapterReplies ==
    {Raises, Reply(FALSE, <<>>)} \cup {Reply(TRUE, r) : r \in ResultLists}

----------------------------------------------------------------------------
(* ProductComparator._generate_search_terms *)

\* w.lower() for the words of the records above
Lower(w) ==
    CASE w = "Shure" -> "shure"
      [] w = "Microphone" -> "microphone"
      [] w = "Receiver" -> "receiver"
      [] w = "Flip" -> "flip"
      [] w = "AVR-X580BT" -> "avr-x580bt"
      [] w = "Ch." -> "ch."
      [] w = "95W" -> "95w"
      [] w = "Denon" -> "denon"
      [] w = "Home" -> "home"
      [] w = "HEOS" -> "heos"
      [] w = "With" -> "with"
      [] w = "Studio" -> "studio"
      [] w = "Monitor" -> "monitor"
      [] w = "Speaker" -> "speaker"
      [] w = "Pair" -> "pair"
      [] w = "SM58" -> "sm58"
      [] w = "JBL" -> "jbl"
      [] OTHER -> w

StopWords == {"with", "and", "the", "for", "receiver", "built", "channel"}

\* [w for w in words if len(w) > 3 and w.lower() not in [...]]
MeaningfulWords(words) ==
    SelectSeq(words, LAMBDA w : Len(w) > meaningful_min_length /\ Lower(w) \notin StopWords)

RECURSIVE UniqueTerms(_, _)
\* the de-duplication loop: keeps the first occurrence of every non-empty term
UniqueTerms(terms, seen) ==
    IF terms = <<>> THEN <<>>
    ELSE IF Head(terms) # "" /\ Head(terms) \notin seen
         THEN <<Head(terms)>> \o UniqueTerms(Tail(terms), seen \cup {Head(terms)})
         ELSE UniqueTerms(Tail(terms), seen)

\* GenerateSearchTerms without the loop that removes duplicates
GenerateSearchTermsKeepsDuplicates(pdf_product) ==
    LET name == pdf_product.name
        model == pdf_product.model
        brand == pdf_product.brand
        meaningful_words == MeaningfulWords(name)
        by_model == IF model # "" THEN <<model>> ELSE <<>>
        by_brand_model == IF brand # "" /\ model # "" THEN <<brand \o " " \o model>> ELSE <<>>
        by_words == IF name # <<>> /\ Len(meaningful_words) >= 2
                    THEN <<Join(Take(meaningful_words, name_words_in_term))>> ELSE <<>>
        by_brand_name == IF brand # "" /\ name # <<>>
                         THEN <<brand \o " " \o Join(Take(name, name_words_in_term))>> ELSE <<>>
        by_brand == IF brand # "" THEN <<brand>> ELSE <<>>
    IN Take(by_model \o by_brand_model \o by_words \o by_brand_name \o by_brand,
            max_search_terms)

GenerateSearchTerms(pdf_product) ==
    LET name == pdf_product.name
        model == pdf_product.model
        brand == pdf_product.brand
        meaningful_words == MeaningfulWords(name)
        by_model == IF model # "" THEN <<model>> ELSE <<>>
        by_brand_model == IF brand # "" /\ model # "" THEN <<brand \o " " \o model>> ELSE <<>>
        by_words == IF name # <<>> /\ Len(meaningful_words) >= 2
                    THEN <<Join(Take(meaningful_words, name_words_in_term))>> ELSE <<>>
        by_brand_name == IF brand # "" /\ name # <<>>
                         THEN <<brand \o " " \o Join(Take(name, name_words_in_term))>> ELSE <<>>
        by_brand == IF brand # "" THEN <<brand>> ELSE <<>>
    IN Take(UniqueTerms(by_model \o by_brand_model \o by_words \o by_brand_name \o by_brand, {}),
            max_search_terms)

----------------------------------------------------------------------------
(* ProductComparator._analyze_match *)

Digits == {"0", "1", "2", "3", "4", "5", "6", "7", "8", "9"}

DigitValue(c) ==
    CASE c = "0" -> 0 [] c = "1" -> 1 [] c = "2" -> 2 [] c = "3" -> 3 [] c = "4" -> 4
      [] c = "5" -> 5 [] c = "6" -> 6 [] c = "7" -> 7 [] c = "8" -> 8 [] c = "9" -> 9

RECURSIVE DigitsValue(_)
DigitsValue(ds) ==
    IF ds = <<>> THEN 0
    ELSE DigitsValue(SubSeq(ds, 1, Len(ds) - 1)) * 10 + DigitValue(ds[Len(ds)])

\* float(text) for a text of digits and dots, in cents: ValueError (ok = FALSE)
\* on more than one dot or no digit; the texts used have at most two decimals
FloatOfText(text) ==
    LET dots == {k \in 1..Len(text) : text[k] = "."}
    IN IF Cardinality(dots) > 1 \/ \A k \in 1..Len(text) : text[k] = "."
       THEN [ok |-> FALSE, cents |-> 0]
       ELSE LET dot == IF dots = {} THEN Len(text) + 1 ELSE CHOOSE k \in dots : TRUE
                whole == SubSeq(text, 1, dot - 1)
                decimals == Take(SubSeq(text, dot + 1, Len(text)) \o <<"0", "0">>, 2)
            IN [ok |-> TRUE, cents |-> DigitsValue(whole) * 100 + DigitsValue(decimals)]

\* re.sub(r'[^\d.,]', '', s).replace(',', ''); float of it, 0.0 when nothing is left
OcPrice(raw) ==
    LET kept == SelectSeq(raw, LAMBDA c : c \in Digits \cup {".", ","})
        clean == SelectSeq(kept, LAMBDA c : c # ",")
    IN IF clean = <<>> THEN [ok |-> TRUE, cents |-> 0] ELSE FloatOfText(clean)

\* float(pdf_product.get('price', 0))
PdfPrice(pdf_product) ==
    CASE pdf_product.price.kind = "number" -> [ok |-> TRUE, cents |-> pdf_product.price.cents]
      [] pdf_product.price.kind = "absent" -> [ok |-> TRUE, cents |-> 0]
      [] OTHER -> [ok |-> FALSE, cents |-> 0]

\* self._calculate_similarity(a, b) if a and b else 0.0
Similarity(a_empty, b_empty, ratio) == IF ~a_empty /\ ~b_empty THEN ratio ELSE 0

\* OverallSimilarity with the model weighting from 0.8 on
OverallSimilarityFromEightTenths(name_similarity, model_similarity) ==
    IF model_similarity >= 800
    THEN (model_similarity * 8 + name_similarity * 2) \div 10
    ELSE (name_similarity * 7 + model_similarity * 3) \div 10

OverallSimilarity(name_similarity, model_similarity) ==
    IF model_similarity > 800
    THEN (model_similarity * 8 + name_similarity * 2) \div 10
    ELSE (name_similarity * 7 + model_similarity * 3) \div 10

\* PriceDifferencePercent taking a catalog price against no record price as a
\* difference of 100 %
PriceDifferencePercentOfFree(pdf_price, oc_price) ==
    IF pdf_price > 0
    THEN [num |-> Abs(pdf_price - oc_price) * 100, den |-> pdf_price]
    ELSE [num |-> IF oc_price # 0 THEN 100 ELSE 0, den |-> 1]

\* abs((pdf_price - oc_price) / pdf_price * 100), 0 unless pdf_price > 0
PriceDifferencePercent(pdf_price, oc_price) ==
    IF pdf_price > 0
    THEN [num |-> Abs(pdf_price - oc_price) * 100, den |-> pdf_price]
    ELSE [num |-> 0, den |-> 1]

\* percent <= bound, percent > bound is its negation
PercentAtMost(percent, bound) == percent.num <= bound * percent.den

AnalyzeMatch(pdf_product, hit) ==
    LET oc_product == hit.product
        pdf_price == PdfPrice(pdf_product)
        oc_price == OcPrice(oc_product.price)
        name_similarity == Similarity(pdf_product.name = <<>>, oc_product.name = "",
                                      hit.name_ratio)
        model_similarity == Similarity(pdf_product.model = "", oc_product.model = "",
                                       hit.model_ratio)
    IN IF pdf_price.ok /\ oc_price.ok
       THEN [product |-> oc_product,
             name_similarity |-> name_similarity,
             model_similarity |-> model_similarity,
             overall_similarity |-> OverallSimilarity(name_similarity, model_similarity),
             price_difference |-> Abs(pdf_price.cents - oc_price.cents),
             price_difference_percent |-> PriceDifferencePercent(pdf_price.cents, oc_price.cents),
             pdf_price |-> pdf_price.cents,
             oc_price |-> oc_price.cents]
       ELSE [product |-> oc_product,
             name_similarity |-> 0,
             model_similarity |-> 0,
             overall_similarity |-> 0,
             price_difference |-> 0,
             price_difference_percent |-> [num |-> 0, den |-> 1],
             pdf_price |-> 0,
             oc_price |-> 0]

----------------------------------------------------------------------------
(* ProductComparator._search_single_product *)

ComparisonResult(pdf_product, opencart_matches, match_confidence, status, recommendations) ==
    [pdf_product |-> pdf_product,
     opencart_matches |-> opencart_matches,
     match_confidence |-> match_confidence,
     status |-> status,
     recommendations |-> recommendations]

\* the recommendation texts, without the figures formatted into them
NotFoundText == <<"Product not found in store with any search term">>
ExactMatchText == <<"Exact match found with {similarity}", "Price match: PDF vs Store">>
PriceDiffersText == <<"Product match found ({similarity})", "Price differs by {percent}",
                      "PDF: vs Store:">>
LowConfidenceText == <<"Low confidence match ({similarity})", "Best guess: {name}",
                       "Likely a new product that should be added">>
SearchFailedText == <<"Search failed: {error}">>

RECURSIVE AnalyzeAll(_, _)
\* the analyses of one reply's products
AnalyzeAll(pdf_product, products) ==
    IF products = <<>> THEN <<>>
    ELSE <<AnalyzeMatch(pdf_product, Head(products))>> \o AnalyzeAll(pdf_product, Tail(products))

\* Collected with the floor test weakened to >=
CollectedAtFloor(pdf_product, reply) ==
    IF reply.kind = "return" /\ reply.success /\ reply.results # <<>>
    THEN SelectSeq(AnalyzeAll(pdf_product, reply.results),
                   LAMBDA m : m.overall_similarity >= search_result_floor)
    ELSE <<>>

\* what one adapter reply adds to all_matches: the analyses above the floor
\* when the call returned success with results, nothing otherwise
Collected(pdf_product, reply) ==
    IF reply.kind = "return" /\ reply.success /\ reply.results # <<>>
    THEN SelectSeq(AnalyzeAll(pdf_product, reply.results),
                   LAMBDA m : m.overall_similarity > search_result_floor)
    ELSE <<>>

\* SortBySimilarity leaving the matches in the order they were collected
SortBySimilarityKeepsOrder(matches) == matches

RECURSIVE SortBySimilarity(_)
\* list.sort(key=overall_similarity, reverse=True): stable, descending
SortBySimilarity(matches) ==
    IF matches = <<>> THEN <<>>
    ELSE LET last == matches[Len(matches)]
             front == SortBySimilarity(SubSeq(matches, 1, Len(matches) - 1))
             ahead == Cardinality({k \in 1..Len(front) :
                          front[k].overall_similarity >= last.overall_similarity})
         IN SubSeq(front, 1, ahead) \o <<last>> \o SubSeq(front, ahead + 1, Len(front))

\* the decision of Classify with its three tests as parameters
Decide(pdf_product, matches, good_match(_), price_ok(_), low_text) ==
    LET sorted == SortBySimilarity(matches)
        best_match == sorted[1]
    IN IF sorted = <<>>
       THEN [raised |-> FALSE,
             result |-> ComparisonResult(pdf_product, <<>>, 0, "missing", NotFoundText)]
       ELSE IF good_match(best_match)
       THEN IF price_ok(best_match)
            THEN [raised |-> FALSE,
                  result |-> ComparisonResult(pdf_product, <<best_match.product>>,
                                 best_match.overall_similarity, "match_found", ExactMatchText)]
            ELSE [raised |-> FALSE,
                  result |-> ComparisonResult(pdf_product, <<best_match.product>>,
                                 best_match.overall_similarity, "price_different", PriceDiffersText)]
       ELSE IF best_match.product.name = None
       THEN [raised |-> TRUE,
             result |-> ComparisonResult(pdf_product, <<>>, 0, "missing", SearchFailedText)]
       ELSE [raised |-> FALSE,
             result |-> ComparisonResult(pdf_product, <<best_match.product>>,
                            best_match.overall_similarity, "missing", low_text)]

\* Classify with the threshold test written > instead of >=
ClassifyStrictThreshold(pdf_product, matches, price_tolerance) ==
    Decide(pdf_product, matches,
           LAMBDA m : m.overall_similarity > name_similarity_threshold,
           LAMBDA m : PercentAtMost(m.price_difference_percent, price_tolerance),
           LowConfidenceText)

\* Classify with the tolerance test written < instead of <=
ClassifyStrictTolerance(pdf_product, matches, price_tolerance) ==
    Decide(pdf_product, matches,
           LAMBDA m : m.overall_similarity >= name_similarity_threshold,
           LAMBDA m : m.price_difference_percent.num
                         < price_tolerance * m.price_difference_percent.den,
           LowConfidenceText)

\* Classify answering a low-confidence best match with the not-found text
ClassifyLowAsNotFound(pdf_product, matches, price_tolerance) ==
    Decide(pdf_product, matches,
           LAMBDA m : m.overall_similarity >= name_similarity_threshold,
           LAMBDA m : PercentAtMost(m.price_difference_percent, price_tolerance),
           NotFoundText)

\* the part of _search_single_product after the term loop.  raised is TRUE
\* when it raises: name[:50] of a product whose name is None
Classify(pdf_product, matches, price_tolerance) ==
    LET sorted == SortBySimilarity(matches)
        best_match == sorted[1]
    IN IF sorted = <<>>
       THEN [raised |-> FALSE,
             result |-> ComparisonResult(pdf_product, <<>>, 0, "missing", NotFoundText)]
       ELSE IF best_match.overall_similarity >= name_similarity_threshold
       THEN IF PercentAtMost(best_match.price_difference_percent, price_tolerance)
            THEN [raised |-> FALSE,
                  result |-> ComparisonResult(pdf_product, <<best_match.product>>,
                                 best_match.overall_similarity, "match_found", ExactMatchText)]
            ELSE [raised |-> FALSE,
                  result |-> ComparisonResult(pdf_product, <<best_match.product>>,
                                 best_match.overall_similarity, "price_different", PriceDiffersText)]
       ELSE IF best_match.product.name = None
       THEN [raised |-> TRUE,
             result |-> ComparisonResult(pdf_product, <<>>, 0, "missing", SearchFailedText)]
       ELSE [raised |-> FALSE,
             result |-> ComparisonResult(pdf_product, <<best_match.product>>,
                            best_match.overall_similarity, "missing", LowConfidenceText)]

----------------------------------------------------------------------------
(* ProductComparator.compare_products *)

\* RecordFailed without the append to missing_products
RecordFailedNotMissing(pdf_product, idx) ==
    /\ search_errors' = Append(search_errors, "error")
    /\ comparison_results' = Append(comparison_results,
           ComparisonResult(pdf_product, <<>>, 0, "missing", SearchFailedText))
    /\ raised' = raised \cup {idx}
    /\ UNCHANGED <<missing_products, price_differences, exact_matches, delays>>

\* RecordFailed without the append to comparison_results
RecordFailedNotReported(pdf_product, idx) ==
    /\ search_errors' = Append(search_errors, "error")
    /\ missing_products' = Append(missing_products, pdf_product)
    /\ raised' = raised \cup {idx}
    /\ UNCHANGED <<comparison_results, price_differences, exact_matches, delays>>

\* the except branch of the record loop: the record is added as missing
RecordFailed(pdf_product, idx) ==
    /\ search_errors' = Append(search_errors, "error")
    /\ missing_products' = Append(missing_products, pdf_product)
    /\ comparison_results' = Append(comparison_results,
           ComparisonResult(pdf_product, <<>>, 0, "missing", SearchFailedText))
    /\ raised' = raised \cup {idx}
    /\ UNCHANGED <<price_differences, exact_matches, delays>>

\* the try branch after _search_single_product returned search_result
RecordSearched(pdf_product, search_result, idx) ==
    /\ comparison_results' = Append(comparison_results, search_result)
    /\ missing_products' = IF search_result.status = "missing"
                           THEN Append(missing_products, pdf_product) ELSE missing_products
    /\ price_differences' = IF search_result.status = "price_different"
                            THEN Append(price_differences, search_result) ELSE price_differences
    /\ exact_matches' = IF search_result.status = "match_found"
                        THEN Append(exact_matches, search_result) ELSE exact_matches
    /\ delays' = IF idx < Len(pdf_products) THEN Append(delays, idx) ELSE delays
    /\ UNCHANGED <<search_errors, raised>>

NoReport == [success |-> FALSE, returned |-> FALSE]

\* app.py: last_comparison_result = None, last_update_time = None
NoResult == [stored |-> FALSE, timestamp |-> 0]

NoTime == [set |-> FALSE, at |-> 0]

\* async_processor.py: what get_status answers for a job id it does not know
NotFound == [status |-> "not_found", progress |-> 0, result |-> "None",
             error |-> "Job not found", completed_at |-> "None"]

\* compare_products is entered with the list products
EnterCompare(products, who, price_tolerance) ==
    /\ tolerance' = price_tolerance
    /\ pc' = "loop"
    /\ caller' = who
    /\ pdf_products' = products
    /\ i' = 0
    /\ search_terms' = <<>>
    /\ term_idx' = 1
    /\ all_matches' = <<>>
    /\ comparison_results' = <<>>
    /\ missing_products' = <<>>
    /\ price_differences' = <<>>
    /\ exact_matches' = <<>>
    /\ search_errors' = <<>>
    /\ report' = NoReport
    /\ replies' = <<>>
    /\ calls' = <<>>
    /\ delays' = <<>>
    /\ raised' = {}

\* the comparison endpoint hands over the posted list
ApiCompare ==
    /\ pc = "idle"
    /\ wf_pc = "none"
    /\ \E products \in SeqsUpTo(ApiRecords, MaxBatch) :
          EnterCompare(products, "api", price_tolerance_percent)
    /\ UNCHANGED <<workflow_vars, call_vars, service_vars>>

\* the loop takes the next record and _search_single_product starts on it:
\* float(price) raises for a price that is no number, else the terms are generated
BeginRecord ==
    /\ pc = "loop"
    /\ i < Len(pdf_products)
    /\ i' = i + 1
    /\ LET pdf_product == pdf_products[i + 1]
       IN IF PdfPrice(pdf_product).ok
          THEN /\ search_terms' = GenerateSearchTerms(pdf_product)
               /\ pc' = "search"
               /\ UNCHANGED <<comparison_results, missing_products, price_differences,
                              exact_matches, search_errors, delays, raised>>
          ELSE /\ search_terms' = <<>>
               /\ pc' = "loop"
               /\ RecordFailed(pdf_product, i + 1)
    /\ term_idx' = 1
    /\ all_matches' = <<>>
    /\ replies' = <<>>
    /\ calls' = <<>>
    /\ UNCHANGED <<caller, pdf_products, report, tolerance, workflow_vars, call_vars, service_vars>>

\* SearchTerm leaving the term loop when the adapter raises
SearchTermStopsOnError ==
    /\ pc = "search"
    /\ term_idx <= Len(search_terms)
    /\ \E reply \in AdapterReplies :
          /\ all_matches' = all_matches \o Collected(pdf_products[i], reply)
          /\ replies' = Append(replies, reply)
          /\ term_idx' = IF reply.kind = "raise" THEN Len(search_terms) + 1 ELSE term_idx + 1
    /\ calls' = Append(calls, search_terms[term_idx])
    /\ UNCHANGED <<pc, caller, pdf_products, i, search_terms, comparison_results,
                   missing_products, price_differences, exact_matches, search_errors,
                   report, delays, raised, tolerance, workflow_vars, call_vars, service_vars>>

\* one turn of the term loop: one call of search_products and the analysis
\* of what it returned
SearchTerm ==
    /\ pc = "search"
    /\ term_idx <= Len(search_terms)
    /\ \E reply \in AdapterReplies :
          /\ all_matches' = all_matches \o Collected(pdf_products[i], reply)
          /\ replies' = Append(replies, reply)
    /\ calls' = Append(calls, search_terms[term_idx])
    /\ term_idx' = term_idx + 1
    /\ UNCHANGED <<pc, caller, pdf_products, i, search_terms, comparison_results,
                   missing_products, price_differences, exact_matches, search_errors,
                   report, delays, raised, tolerance, workflow_vars, call_vars, service_vars>>

\* the term loop is over: sort, classify, and the rest of the loop body
FinishRecord ==
    /\ pc = "search"
    /\ term_idx > Len(search_terms)
    /\ LET pdf_product == pdf_products[i]
           outcome == Classify(pdf_product, all_matches, tolerance)
       IN /\ all_matches' = SortBySimilarity(all_matches)
          /\ IF outcome.raised
             THEN RecordFailed(pdf_product, i)
             ELSE RecordSearched(pdf_product, outcome.result, i)
    /\ pc' = "loop"
    /\ UNCHANGED <<caller, pdf_products, i, search_terms, term_idx, report, replies,
                   calls, tolerance, workflow_vars, call_vars, service_vars>>

\* the loop is over: the report is returned
ReturnReport ==
    /\ pc = "loop"
    /\ i = Len(pdf_products)
    /\ report' = [success |-> TRUE,
                  returned |-> TRUE,
                  summary |-> [total_pdf_products |-> Len(pdf_products),
                               exact_matches |-> Len(exact_matches),
                               price_differences |-> Len(price_differences),
                               missing_products |-> Len(missing_products),
                               search_errors |-> Len(search_errors)],
                  missing_products |-> missing_products,
                  price_differences |-> price_differences,
                  exact_matches |-> exact_matches,
                  detailed_results |-> comparison_results,
                  search_errors |-> search_errors]
    /\ pc' = "done"
    /\ UNCHANGED <<caller, pdf_products, i, search_terms, term_idx, all_matches,
                   comparison_results, missing_products, price_differences, exact_matches,
                   search_errors, replies, calls, delays, raised, tolerance,
                   workflow_vars, call_vars, service_vars>>

----------------------------------------------------------------------------
(* DataValidator.validate_product *)

min_name_length == 3
min_price == 100

\* len(name) of the name whose words are given
NameLength(words) == Len(Join(words))

\* product.get('price', 0) of a record the parser produced (a number or nothing)
PriceOrZero(product) == IF product.price.kind = "number" THEN product.price.cents ELSE 0

\* max(0.0, min(1.0, confidence_score)), in thousandths
Clamp(confidence_score) ==
    IF confidence_score < 0 THEN 0
    ELSE IF confidence_score > 1000 THEN 1000 ELSE confidence_score

\* ValidateProduct with the second name test an if instead of an elif: a
\* missing name is also a short name
ValidateProductBothNameTests(product) ==
    LET missing == product.name = <<>>
        short == NameLength(product.name) < min_name_length
        price == PriceOrZero(product)
        errors == (IF missing THEN <<"Product name is required">> ELSE <<>>)
                  \o (IF short THEN <<"Product name too short">> ELSE <<>>)
                  \o (IF price <= 0 THEN <<"Valid price is required">> ELSE <<>>)
        warnings == IF price > 0 /\ price < min_price THEN <<"Price seems very low">> ELSE <<>>
        confidence_score == 1000 - (IF missing THEN 300 ELSE 0) - (IF short THEN 200 ELSE 0)
                                 - (IF price <= 0 THEN 400 ELSE IF price < min_price THEN 100 ELSE 0)
    IN [is_valid |-> Len(errors) = 0, confidence_score |-> Clamp(confidence_score),
        errors |-> errors, warnings |-> warnings]

\* ValidateProduct with the low price reported as an error
ValidateProductLowPriceIsError(product) ==
    LET name_errors == IF product.name = <<>> THEN <<"Product name is required">>
                       ELSE IF NameLength(product.name) < min_name_length
                       THEN <<"Product name too short">> ELSE <<>>
        price == PriceOrZero(product)
        price_errors == IF price <= 0 THEN <<"Valid price is required">>
                        ELSE IF price < min_price THEN <<"Price seems very low">> ELSE <<>>
        errors == name_errors \o price_errors
        confidence_score == 1000 - (IF product.name = <<>> THEN 300
                                    ELSE IF NameLength(product.name) < min_name_length
                                    THEN 200 ELSE 0)
                                 - (IF price <= 0 THEN 400 ELSE IF price < min_price THEN 100 ELSE 0)
    IN [is_valid |-> Len(errors) = 0, confidence_score |-> Clamp(confidence_score),
        errors |-> errors, warnings |-> <<>>]

\* confidence_score is in thousandths and starts at 1.0
ValidateProduct(product) ==
    LET name_errors == IF product.name = <<>> THEN <<"Product name is required">>
                       ELSE IF NameLength(product.name) < min_name_length
                       THEN <<"Product name too short">> ELSE <<>>
        name_penalty == IF product.name = <<>> THEN 300
                        ELSE IF NameLength(product.name) < min_name_length THEN 200 ELSE 0
        price == PriceOrZero(product)
        price_errors == IF price <= 0 THEN <<"Valid price is required">> ELSE <<>>
        warnings == IF price > 0 /\ price < min_price THEN <<"Price seems very low">> ELSE <<>>
        price_penalty == IF price <= 0 THEN 400 ELSE IF price < min_price THEN 100 ELSE 0
        errors == name_errors \o price_errors
        confidence_score == 1000 - name_penalty - price_penalty
    IN [is_valid |-> Len(errors) = 0, confidence_score |-> Clamp(confidence_score),
        errors |-> errors, warnings |-> warnings]

\* the records validate_product is called with: names of 0 to 13 characters,
\* no price, and prices of R-1.00, 0, R0.01, R0.50, R0.99, R1.00, R1.01, R899.00
ValidatorNames ==
    {<<>>, <<"A">>, <<"AB">>, <<"ABC">>, <<"A", "B">>, <<"AVR-X580BT">>,
     <<"7.2", "Ch.", "95W", "0">>}

ValidatorPrices ==
    {AbsentPrice} \cup {Number(cents) : cents \in {0 - 100, 0, 1, 50, 99, 100, 101, 89900}}

ValidatorInputs ==
    {[call |-> "validate_product", product |-> Record(name, "", "Denon", price)] :
        name \in ValidatorNames, price \in ValidatorPrices}

----------------------------------------------------------------------------
(* WorkflowManager *)

\* the option sets a client of the workflow endpoint may choose
Tolerances == {0, price_tolerance_percent}

WorkflowOptions ==
    [auto_create_missing : BOOLEAN, dry_run : BOOLEAN, price_tolerance_percent : Tolerances]

NoWorkflow ==
    [status |-> "none", current_step |-> "none", completed_at |-> FALSE,
     total_duration |-> FALSE, products_extracted |-> 0, products_missing |-> 0,
     products_created |-> 0, products_updated |-> 0, errors |-> <<>>, warnings |-> <<>>]

NoParsingResult == [success |-> FALSE, products |-> <<>>]

\* _filter_valid_products
FilterValidProducts(products, threshold) == products

\* the except branch of _execute_workflow
WorkflowFailed(step, message) ==
    /\ workflow' = [workflow EXCEPT !.status = "failed",
                                    !.current_step = step,
                                    !.errors = Append(@, message),
                                    !.completed_at = TRUE,
                                    !.total_duration = TRUE]
    /\ wf_pc' = "returned"

\* start_workflow stores a fresh WorkflowResult and calls _execute_workflow
StartWorkflow ==
    /\ pc = "idle"
    /\ wf_pc = "none"
    /\ \E chosen \in WorkflowOptions : options' = chosen
    /\ workflow' = [NoWorkflow EXCEPT !.status = "pending", !.current_step = "upload"]
    /\ wf_pc' = "upload"
    /\ UNCHANGED <<engine_vars, tolerance, temp_file, parsing_result, submitted, call_vars, service_vars>>

\* step 1: the temporary file is created, then pdf_file.save succeeds or raises
StepUpload ==
    /\ wf_pc = "upload"
    /\ temp_file' = "exists"
    /\ \E saved \in BOOLEAN :
          IF saved
          THEN /\ workflow' = [workflow EXCEPT !.status = "processing",
                                               !.current_step = "upload"]
               /\ wf_pc' = "extract"
          ELSE WorkflowFailed("upload", "Upload failed")
    /\ UNCHANGED <<engine_vars, tolerance, options, parsing_result, submitted, call_vars, service_vars>>

\* step 2: the text extraction adapter succeeds or fails
StepExtract ==
    /\ wf_pc = "extract"
    /\ \E extracted \in BOOLEAN :
          IF extracted
          THEN /\ workflow' = [workflow EXCEPT !.current_step = "extract"]
               /\ wf_pc' = "parse"
          ELSE WorkflowFailed("extract", "Text extraction failed")
    /\ UNCHANGED <<engine_vars, tolerance, options, temp_file, parsing_result, submitted, call_vars, service_vars>>

\* step 3: DataParser.parse_text fails or returns its products
StepParse ==
    /\ wf_pc = "parse"
    /\ \/ /\ parsing_result' = NoParsingResult
          /\ WorkflowFailed("parse", "Product parsing failed")
       \/ \E products \in SeqsUpTo(ParsedRecords, MaxParsed) :
             /\ parsing_result' = [success |-> TRUE, products |-> products]
             /\ workflow' = [workflow EXCEPT !.current_step = "parse",
                                             !.products_extracted = Len(products)]
             /\ wf_pc' = "validate"
    /\ UNCHANGED <<engine_vars, tolerance, options, temp_file, submitted, call_vars, service_vars>>

\* step 4 and the call of step 5: the products are validated and filtered;
\* with none left the workflow completes at once, else compare_products is
\* entered with the filtered list
StepValidate ==
    /\ wf_pc = "validate"
    /\ LET valid_products == FilterValidProducts(parsing_result.products, 700)
       IN IF valid_products = <<>>
          THEN /\ workflow' = [workflow EXCEPT
                                  !.current_step = "validate",
                                  !.status = "completed",
                                  !.warnings = Append(@, "No products passed validation threshold")]
               /\ wf_pc' = "returned"
               /\ UNCHANGED <<engine_vars, tolerance>>
          ELSE /\ workflow' = [workflow EXCEPT !.current_step = "compare"]
               /\ wf_pc' = "compare"
               /\ EnterCompare(valid_products, "workflow", options.price_tolerance_percent)
    /\ UNCHANGED <<options, temp_file, parsing_result, submitted, call_vars, service_vars>>

\* StepAutomate calling _step_automate_products in a dry run as well
StepAutomateInDryRun ==
    /\ wf_pc = "compare"
    /\ pc = "done"
    /\ caller = "workflow"
    /\ IF ~report.success
       THEN /\ WorkflowFailed("compare", "Product comparison failed")
            /\ UNCHANGED <<temp_file, submitted>>
       ELSE LET to_create == report.missing_products
                creates == options.auto_create_missing /\ to_create # <<>>
            IN /\ submitted' = IF creates THEN Append(submitted, to_create) ELSE submitted
               /\ temp_file' = "deleted"
               /\ workflow' = [workflow EXCEPT
                                  !.products_missing = Len(report.missing_products),
                                  !.products_created = IF creates THEN Len(to_create) ELSE 0,
                                  !.current_step = "complete",
                                  !.status = "completed",
                                  !.completed_at = TRUE,
                                  !.total_duration = TRUE]
               /\ wf_pc' = "returned"
    /\ UNCHANGED <<engine_vars, tolerance, options, parsing_result, call_vars, service_vars>>

\* compare_products returned: step 6, the cleanup and the completion
StepAutomate ==
    /\ wf_pc = "compare"
    /\ pc = "done"
    /\ caller = "workflow"
    /\ IF ~report.success
       THEN /\ WorkflowFailed("compare", "Product comparison failed")
            /\ UNCHANGED <<temp_file, submitted>>
       ELSE LET to_create == report.missing_products
                creates == ~options.dry_run /\ options.auto_create_missing /\ to_create # <<>>
            IN /\ submitted' = IF creates THEN Append(submitted, to_create) ELSE submitted
               /\ temp_file' = "deleted"
               /\ workflow' = [workflow EXCEPT
                                  !.products_missing = Len(report.missing_products),
                                  !.products_created = IF creates THEN Len(to_create) ELSE 0,
                                  !.current_step = "complete",
                                  !.status = "completed",
                                  !.completed_at = TRUE,
                                  !.total_duration = TRUE]
               /\ wf_pc' = "returned"
    /\ UNCHANGED <<engine_vars, tolerance, options, parsing_result, call_vars, service_vars>>

----------------------------------------------------------------------------

\* the comparator and the workflow manager after construction, no call made
Idle ==
    /\ pc = "idle"
    /\ caller = "none"
    /\ pdf_products = <<>>
    /\ i = 0
    /\ search_terms = <<>>
    /\ term_idx = 1
    /\ all_matches = <<>>
    /\ comparison_results = <<>>
    /\ missing_products = <<>>
    /\ price_differences = <<>>
    /\ exact_matches = <<>>
    /\ search_errors = <<>>
    /\ report = NoReport
    /\ replies = <<>>
    /\ calls = <<>>
    /\ delays = <<>>
    /\ raised = {}
    /\ tolerance = price_tolerance_percent
    /\ wf_pc = "none"
    /\ workflow = NoWorkflow
    /\ options = [auto_create_missing |-> TRUE, dry_run |-> FALSE,
                  price_tolerance_percent |-> price_tolerance_percent]
    /\ temp_file = "none"
    /\ parsing_result = NoParsingResult
    /\ submitted = <<>>
    /\ now = 0
    /\ last_comparison_result = NoResult
    /\ last_update_time = NoTime
    /\ served = 0
    /\ job = NotFound
    /\ worker_pc = 0
    /\ observed = NotFound

Init ==
    /\ Idle
    /\ input = NoInput
    /\ output = NotReturned

Next ==
    \/ ApiCompare
    \/ BeginRecord
    \/ SearchTerm
    \/ FinishRecord
    \/ ReturnReport
    \/ StartWorkflow
    \/ StepUpload
    \/ StepExtract
    \/ StepParse
    \/ StepValidate
    \/ StepAutomate

Spec == Init /\ [][Next]_vars

----------------------------------------------------------------------------
(* DataValidator.validate_product, called on its own *)

\* one call of validate_product
Validate ==
    /\ input.call = "validate_product"
    /\ ~output.returned
    /\ output' = Returned(ValidateProduct(input.product))
    /\ UNCHANGED <<engine_vars, tolerance, workflow_vars, input, service_vars>>

ValidatorInit ==
    /\ Idle
    /\ input \in ValidatorInputs
    /\ output = NotReturned

ValidatorNext == Validate

ValidatorSpec == ValidatorInit /\ [][ValidatorNext]_vars

----------------------------------------------------------------------------
(* DataParser._parse_denon_format, called on its own *)

\* the bound on the lines of a text, the price list below apart
MaxLines == 3

min_primary_products == 5
search_range == 3

\* A stripped, non-empty line of the text, with what the regular expressions
\* of the parser find in it:
\*   category, header   the line holds a category word / a header word
\*   is_product_line    _is_product_line(line)
\*   model              _extract_model(line), '' for none
\*   clean_name         _clean_product_name(line).split()
\*   prices             _extract_all_prices_from_line(line), in cents
\*   mentions           the identifiers of the lines below it contains
\*   has_model, has_price, has_specs   the three searches of _alternative_parse
ln_category ==
    [text |-> "Denon Home", category |-> TRUE, header |-> FALSE, is_product_line |-> TRUE,
     model |-> "Denon Home", clean_name |-> <<"Denon", "Home">>, prices |-> <<>>,
     mentions |-> {}, has_model |-> TRUE, has_price |-> FALSE, has_specs |-> FALSE]

ln_spec ==
    [text |-> "AVR-X1800H 7.2 Ch. Receiver", category |-> FALSE, header |-> FALSE,
     is_product_line |-> TRUE, model |-> "AVR-X1800H",
     clean_name |-> <<"AVR-X1800H", "7.2", "Ch.", "Receiver">>, prices |-> <<>>,
     mentions |-> {"AVR-X1800H"}, has_model |-> TRUE, has_price |-> FALSE, has_specs |-> TRUE]

ln_bare ==
    [text |-> "7.2 Ch. 95W Receiver", category |-> FALSE, header |-> FALSE,
     is_product_line |-> TRUE, model |-> "",
     clean_name |-> <<"7.2", "Ch.", "95W", "Receiver">>, prices |-> <<>>,
     mentions |-> {"7.2 Ch. 95W Receiver"}, has_model |-> FALSE, has_price |-> FALSE,
     has_specs |-> TRUE]

ln_two ==
    [text |-> "AVR-X2800H R18990.00 R15990.00", category |-> FALSE, header |-> FALSE,
     is_product_line |-> TRUE, model |-> "AVR-X2800H",
     clean_name |-> <<"AVR-X2800H", "90.00", "90.00">>, prices |-> <<1599000, 1899000>>,
     mentions |-> {"AVR-X2800H"}, has_model |-> TRUE, has_price |-> TRUE, has_specs |-> FALSE]

ln_three ==
    [text |-> "AVR-X1800H R18990.00 R15990.00 R12990.00", category |-> FALSE,
     header |-> FALSE, is_product_line |-> TRUE, model |-> "AVR-X1800H",
     clean_name |-> <<"AVR-X1800H", "90.00", "90.00", "90.00">>,
     prices |-> <<1299000, 1599000, 1899000>>,
     mentions |-> {"AVR-X1800H"}, has_model |-> TRUE, has_price |-> TRUE, has_specs |-> FALSE]

ln_black ==
    [text |-> "AVR-S670H Black R12990.00", category |-> FALSE, header |-> TRUE,
     is_product_line |-> TRUE, model |-> "AVR-S670H",
     clean_name |-> <<"AVR-S670H", "Black", "90.00">>, prices |-> <<1299000>>,
     mentions |-> {"AVR-S670H"}, has_model |-> TRUE, has_price |-> TRUE, has_specs |-> FALSE]

ln_price ==
    [text |-> "R 9,990.00", category |-> FALSE, header |-> FALSE, is_product_line |-> FALSE,
     model |-> "", clean_name |-> <<>>, prices |-> <<999000>>,
     mentions |-> {}, has_model |-> FALSE, has_price |-> FALSE, has_specs |-> FALSE]

Lines == {ln_category, ln_spec, ln_bare, ln_two, ln_three, ln_black, ln_price}

\* a price list of five lines the primary pass turns into five products
PriceList == <<ln_two, ln_two, ln_two, ln_two, ln_two>>

\* the texts: at most MaxLines lines, alone or after the price list
Texts == {head \o tail : head \in {<<>>, PriceList}, tail \in SeqsUpTo(Lines, MaxLines)}

SetOf(seq) == {seq[k] : k \in 1..Len(seq)}

RECURSIVE SortedSeq(_)
\* sorted(values) of a set of numbers
SortedSeq(values) ==
    IF values = {} THEN <<>>
    ELSE LET least == CHOOSE v \in values : \A w \in values : v <= w
         IN <<least>> \o SortedSeq(values \ {least})

\* a value of a product dict is truthy: a price that is there and not 0
Truthy(price) == price.kind = "number" /\ price.cents # 0

ParsedProduct(name, model, price, old_price, category) ==
    [name |-> name, model |-> model, brand |-> "Denon", price |-> price,
     old_price |-> old_price, category |-> category]

\* _find_prices_in_context: the prices of the lines at most search_range away
\* that hold the identifier, and of the two neighbours in any case
FindPricesInContext(lines, line_index, product_identifier) ==
    LET consulted == {idx \in 1..Len(lines) :
                         /\ idx # line_index
                         /\ Abs(idx - line_index) <= search_range
                         /\ \/ product_identifier # ""
                               /\ product_identifier \in lines[idx].mentions
                            \/ Abs(idx - line_index) = 1}
    IN SortedSeq(UNION {SetOf(lines[idx].prices) : idx \in consulted})

\* _extract_denon_product; <<>> stands for None
ExtractDenonProductNameOnly(line, all_lines, line_index, category) ==
    LET on_line == line.prices
        identifier == IF line.model # "" THEN line.model ELSE Join(line.clean_name)
        found == IF on_line = <<>>
                 THEN FindPricesInContext(all_lines, line_index, identifier) ELSE on_line
        prices == SortedSeq(SetOf(found))
        price == IF prices = <<>> THEN AbsentPrice ELSE Number(prices[1])
        old_price == IF Len(prices) >= 2 THEN Number(prices[2]) ELSE AbsentPrice
        product == ParsedProduct(line.clean_name, line.model, price, old_price, category)
    IN IF line.clean_name # <<>> THEN <<product>> ELSE <<>>

\* _extract_denon_product; <<>> stands for None.  The prices are those of
\* the line or, when it has none, of its context; sorted, the first is the
\* price and the second the old price
ExtractDenonProduct(line, all_lines, line_index, category) ==
    LET on_line == line.prices
        identifier == IF line.model # "" THEN line.model ELSE Join(line.clean_name)
        found == IF on_line = <<>>
                 THEN FindPricesInContext(all_lines, line_index, identifier) ELSE on_line
        prices == SortedSeq(SetOf(found))
        price == IF prices = <<>> THEN AbsentPrice
                 ELSE IF Len(prices) >= 2
                 THEN (IF prices[1] > prices[2] THEN Number(prices[2]) ELSE Number(prices[1]))
                 ELSE Number(prices[1])
        old_price == IF Len(prices) >= 2
                     THEN (IF prices[1] > prices[2] THEN Number(prices[1]) ELSE Number(prices[2]))
                     ELSE AbsentPrice
        product == ParsedProduct(line.clean_name, line.model, price, old_price, category)
    IN IF line.clean_name # <<>> /\ (Truthy(price) \/ line.model # "")
       THEN <<product>> ELSE <<>>

RECURSIVE PrimaryFrom(_, _, _)
\* the line loop of _parse_denon_format from line i on
PrimaryFrom(lines, i_line, current_category) ==
    IF i_line > Len(lines) THEN <<>>
    ELSE LET line == lines[i_line]
         IN IF line.category THEN PrimaryFrom(lines, i_line + 1, line.text)
            ELSE IF line.header THEN PrimaryFrom(lines, i_line + 1, current_category)
            ELSE (IF line.is_product_line
                  THEN ExtractDenonProduct(line, lines, i_line, current_category)
                  ELSE <<>>)
                 \o PrimaryFrom(lines, i_line + 1, current_category)

PrimaryParse(lines) == PrimaryFrom(lines, 1, "AV Receivers")

\* the product _alternative_parse makes of one line; <<>> when it makes none
AlternativeProduct(line) ==
    IF (line.has_model /\ line.has_price) \/ (line.has_specs /\ line.has_price)
    THEN LET prices == line.prices
             values == SetOf(prices)
             price == IF prices = <<>> THEN AbsentPrice
                      ELSE IF Len(prices) >= 2
                      THEN Number(CHOOSE v \in values : \A w \in values : v <= w)
                      ELSE Number(prices[1])
             old_price == IF Len(prices) >= 2
                          THEN Number(CHOOSE v \in values : \A w \in values : v >= w)
                          ELSE AbsentPrice
             product == ParsedProduct(line.clean_name, line.model, price, old_price,
                                      "AV Receivers")
         IN IF line.clean_name # <<>> /\ Truthy(price) THEN <<product>> ELSE <<>>
    ELSE <<>>

RECURSIVE AlternativeParse(_)
AlternativeParse(lines) ==
    IF lines = <<>> THEN <<>>
    ELSE AlternativeProduct(Head(lines)) \o AlternativeParse(Tail(lines))

\* _parse_denon_format with the second pass tried at five products too
ParseDenonFormatTriesAtFive(lines) ==
    LET products == PrimaryParse(lines)
        tried == Len(products) <= min_primary_products
        alt_products == IF tried THEN AlternativeParse(lines) ELSE <<>>
        chosen == IF tried /\ Len(alt_products) > Len(products) THEN alt_products ELSE products
    IN [success |-> TRUE, products_found |-> Len(chosen), products |-> chosen,
        alternative_tried |-> tried]

\* _parse_denon_format; alternative_tried is history: whether
\* _alternative_parse was called
ParseDenonFormat(lines) ==
    LET products == PrimaryParse(lines)
        tried == Len(products) < min_primary_products
        alt_products == IF tried THEN AlternativeParse(lines) ELSE <<>>
        chosen == IF tried /\ Len(alt_products) > Len(products) THEN alt_products ELSE products
    IN [success |-> TRUE, products_found |-> Len(chosen), products |-> chosen,
        alternative_tried |-> tried]

ParserInputs == {[call |-> "_parse_denon_format", lines |-> text] : text \in Texts}

\* one call of _parse_denon_format
Parse ==
    /\ input.call = "_parse_denon_format"
    /\ ~output.returned
    /\ output' = Returned(ParseDenonFormat(input.lines))
    /\ UNCHANGED <<engine_vars, tolerance, workflow_vars, input, service_vars>>

ParserInit ==
    /\ Idle
    /\ input \in ParserInputs
    /\ output = NotReturned

ParserNext == Parse

ParserSpec == ParserInit /\ [][ParserNext]_vars

----------------------------------------------------------------------------
(* ProductComparator._generate_search_terms, called on its own *)

TermNames ==
    {<<>>, <<"Denon">>, <<"AVR-X580BT">>, <<"JBL", "Flip">>,
     <<"Shure", "SM58", "Microphone">>, <<"7.2", "Ch.", "95W", "0">>,
     <<"Denon", "Home", "Receiver", "With", "HEOS">>,
     <<"Studio", "Monitor", "Speaker", "Pair">>}

TermModels == {"", "SM58", "AVR-X580BT", "Shure SM58 Microphone"}

TermBrands == {"", "Denon", "Shure"}

TermInputs ==
    {[call |-> "_generate_search_terms", pdf_product |-> Record(name, model, brand, AbsentPrice)] :
        name \in TermNames, model \in TermModels, brand \in TermBrands}

\* one call of _generate_search_terms
GenerateTerms ==
    /\ input.call = "_generate_search_terms"
    /\ ~output.returned
    /\ output' = Returned(GenerateSearchTerms(input.pdf_product))
    /\ UNCHANGED <<engine_vars, tolerance, workflow_vars, input, service_vars>>

TermsInit ==
    /\ Idle
    /\ input \in TermInputs
    /\ output = NotReturned

TermsNext == GenerateTerms

TermsSpec == TermsInit /\ [][TermsNext]_vars

----------------------------------------------------------------------------
(* ProductComparator._analyze_match, called on its own *)

\* the ratios SequenceMatcher may give: 0.0, 0.1, ... 1.0
Ratios == {100 * k : k \in 0..10}

\* records with and without a name and a model, at R1000.00
AnalyzedRecords ==
    { Record(<<"Shure", "SM58", "Microphone">>, "SM58", "", Number(100000)),
      Record(<<"Shure", "SM58", "Microphone">>, "", "", Number(100000)),
      Record(<<>>, "SM58", "", Number(100000)) }

\* catalog products with and without a name and a model, and one whose price
\* float() rejects
AnalyzedProducts ==
    { OcProduct("Shure SM58 Microphone", "SM58", price_R1050),
      OcProduct("Shure SM58 Microphone", "", price_950),
      OcProduct("", "SM58", price_950),
      OcProduct("Shure SM58 Microphone", "SM58", price_bad) }

AnalyzeInputs ==
    {[call |-> "_analyze_match", pdf_product |-> pdf_product,
      hit |-> Hit(oc_product, name_ratio, model_ratio)] :
        pdf_product \in AnalyzedRecords, oc_product \in AnalyzedProducts,
        name_ratio \in Ratios, model_ratio \in Ratios}

\* one call of _analyze_match
Analyze ==
    /\ input.call = "_analyze_match"
    /\ ~output.returned
    /\ output' = Returned(AnalyzeMatch(input.pdf_product, input.hit))
    /\ UNCHANGED <<engine_vars, tolerance, workflow_vars, input, service_vars>>

AnalyzeInit ==
    /\ Idle
    /\ input \in AnalyzeInputs
    /\ output = NotReturned

AnalyzeNext == Analyze

AnalyzeSpec == AnalyzeInit /\ [][AnalyzeNext]_vars

----------------------------------------------------------------------------
(* app.py: compare_products_fast, POST /api/comparison/compare-fast *)

\* the length of the long posted list
LongBatch == 11

\* data['products'][:10]
fast_limit == 10

\* the divisor of len(data['products']) / 10
scale_divisor == 10

FastRecords ==
    { Record(<<"Shure", "SM58", "Microphone">>, "SM58", "", Number(100000)),
      Record(<<>>, "", "", AbsentPrice) }

\* a list longer than the limit: a record with terms, records without terms
\* (nothing to search) and a last record with a term of its own, 'HS8'
LongList ==
    [k \in 1..LongBatch |->
        CASE k = 1 -> Record(<<"Shure", "SM58", "Microphone">>, "SM58", "", Number(100000))
          [] k = LongBatch -> Record(<<>>, "HS8", "", Number(0))
          [] OTHER -> Record(<<>>, "", "", AbsentPrice)]

\* request.get_json(): a body without 'products', or one with a list
NoProducts == [has_products |-> FALSE, products |-> <<>>]

Posted(products) == [has_products |-> TRUE, products |-> products]

FastInputs ==
    {[call |-> "compare_products_fast", data |-> data] :
        data \in {NoProducts} \cup {Posted(LongList)}
                    \cup {Posted(products) : products \in SeqsUpTo(FastRecords, MaxBatch)}}

\* int(summary[count] * (len(data['products']) / 10))
Scaled(count, posted) == (count * posted) \div scale_divisor

\* the response once compare_products has returned result: result['status']
\* raises KeyError when the result has no such key, and the handler of line
\* 1314 answers 500
FastResponse(data, products, result) ==
    IF "status" \notin DOMAIN result
    THEN [code |-> 500, status |-> "error",
          message |-> "Fast comparison failed: 'status'"]
    ELSE [code |-> 200, status |-> "success", message |-> "Fast comparison completed",
          comparison |->
              IF result["status"] # "success" THEN result
              ELSE [key \in DOMAIN result \cup {"note"} |->
                      CASE key = "summary" ->
                              [total_pdf_products |-> Len(data.products),
                               exact_matches |->
                                   Scaled(result.summary.exact_matches, Len(data.products)),
                               price_differences |->
                                   Scaled(result.summary.price_differences, Len(data.products)),
                               missing_products |->
                                   Scaled(result.summary.missing_products, Len(data.products))]
                        [] key = "note" ->
                              [tested |-> Len(products), of |-> Len(data.products)]
                        [] OTHER -> result[key]]]

\* the endpoint is called: 400 without 'products', else compare_products is
\* entered with the first 10 records
CompareFast ==
    /\ input.call = "compare_products_fast"
    /\ pc = "idle"
    /\ ~output.returned
    /\ IF ~input.data.has_products
       THEN /\ output' = Returned([code |-> 400, status |-> "error",
                                   message |-> "No product data provided"])
            /\ UNCHANGED <<engine_vars, tolerance>>
       ELSE /\ EnterCompare(Take(input.data.products, fast_limit), "fast",
                            price_tolerance_percent)
            /\ UNCHANGED output
    /\ UNCHANGED <<workflow_vars, input, service_vars>>

\* compare_products has returned: the endpoint answers
FastRespond ==
    /\ pc = "done"
    /\ caller = "fast"
    /\ ~output.returned
    /\ output' = Returned(FastResponse(input.data, pdf_products, report))
    /\ UNCHANGED <<engine_vars, tolerance, workflow_vars, input, service_vars>>

FastInit ==
    /\ Idle
    /\ input \in FastInputs
    /\ output = NotReturned

FastNext ==
    \/ CompareFast
    \/ BeginRecord
    \/ SearchTerm
    \/ FinishRecord
    \/ ReturnReport
    \/ FastRespond

FastSpec == FastInit /\ [][FastNext]_vars

----------------------------------------------------------------------------
(* DataValidator.validate_product_batch, called on its own *)

\* the longest batch
MaxBatchLen == 21

Repeat(x, n) == [k \in 1..n |-> x]

\* batches of records scoring 0.9 (valid, low price), then at most one scoring
\* 0.8 (name too short), then at most one scoring 1.0.  The code sums the
\* scores in binary floating point and the model sums them exactly; on these
\* batches both give the same report
BatchInputs ==
    {[call |-> "validate_product_batch",
      products |-> Repeat(Record(<<"ABC">>, "", "Denon", Number(50)), low)
                   \o Repeat(Record(<<"AB">>, "", "Denon", Number(10000)), short)
                   \o Repeat(Record(<<"AVR-X580BT">>, "", "Denon", Number(89900)), full)] :
        low \in 0..(MaxBatchLen - 1), short \in 0..1, full \in 0..1}

RECURSIVE TotalConfidence(_)
\* total_confidence += validation.confidence_score, in thousandths
TotalConfidence(products) ==
    IF products = <<>> THEN 0
    ELSE ValidateProduct(Head(products)).confidence_score + TotalConfidence(Tail(products))

\* round(total / count, 2) in hundredths, 0.0 for no product; a tie goes up
\* on the batches above
AverageConfidence(total, count) ==
    IF count = 0 THEN 0 ELSE (total + 5 * count) \div (10 * count)

\* _get_quality_rating(total / count): the average is not rounded here
GetQualityRating(total, count) ==
    IF count = 0 THEN "Very Poor"
    ELSE IF total >= 900 * count THEN "Excellent"
    ELSE IF total >= 800 * count THEN "Good"
    ELSE IF total >= 700 * count THEN "Fair"
    ELSE IF total >= 600 * count THEN "Poor"
    ELSE "Very Poor"

ValidateProductBatch(products) ==
    LET valid_count == Cardinality({k \in 1..Len(products) : ValidateProduct(products[k]).is_valid})
        total_confidence == TotalConfidence(products)
    IN [total_products |-> Len(products),
        valid_products |-> valid_count,
        invalid_products |-> Len(products) - valid_count,
        average_confidence |-> AverageConfidence(total_confidence, Len(products)),
        overall_quality |-> GetQualityRating(total_confidence, Len(products)),
        results |-> [k \in 1..Len(products) |->
                        [index |-> k - 1, validation |-> ValidateProduct(products[k])]]]

\* one call of validate_product_batch
ValidateBatch ==
    /\ input.call = "validate_product_batch"
    /\ ~output.returned
    /\ output' = Returned(ValidateProductBatch(input.products))
    /\ UNCHANGED <<engine_vars, tolerance, workflow_vars, input, service_vars>>

BatchInit ==
    /\ Idle
    /\ input \in BatchInputs
    /\ output = NotReturned

BatchNext == ValidateBatch

BatchSpec == BatchInit /\ [][BatchNext]_vars

----------------------------------------------------------------------------
(* DataValidator.clean_product_data, called on its result *)

\* the longest name, in characters
MaxNameLen == 4

\* A name is a sequence of characters.  "j-caron" stands for U+01F0, the
\* small j with caron, whose upper case is the two characters J and U+030C,
\* the combining caron ("caron"), which is no word character
NameChars == {"a", "T", "o", " ", "&", "j-caron"}

IsSpace(c) == c = " "

\* [\w\s\-\.\,\(\)\/]: what the second re.sub of _clean_text keeps
IsKept(c) == c \in {"a", "A", "t", "T", "o", "O", "j", "J", "j-caron", " ", "-", ".", ",", "(", ")", "/"}

\* str.upper() and str.lower() of one character
UpperOf(c) ==
    CASE c = "a" -> <<"A">> [] c = "t" -> <<"T">> [] c = "o" -> <<"O">> [] c = "j" -> <<"J">>
      [] c = "j-caron" -> <<"J", "caron">>
      [] OTHER -> <<c>>

LowerOf(c) ==
    CASE c = "A" -> "a" [] c = "T" -> "t" [] c = "O" -> "o" [] c = "J" -> "j"
      [] OTHER -> c

RECURSIVE SplitWords(_, _)
\* text.split(): the words of text; word is the word being read
SplitWords(text, word) ==
    IF text = <<>> THEN (IF word = <<>> THEN <<>> ELSE <<word>>)
    ELSE IF IsSpace(Head(text))
         THEN (IF word = <<>> THEN <<>> ELSE <<word>>) \o SplitWords(Tail(text), <<>>)
         ELSE SplitWords(Tail(text), Append(word, Head(text)))

RECURSIVE JoinWords(_)
\* ' '.join(words) of words that are character sequences
JoinWords(words) ==
    IF words = <<>> THEN <<>>
    ELSE IF Len(words) = 1 THEN words[1]
    ELSE words[1] \o <<" ">> \o JoinWords(Tail(words))

\* _clean_text: '' for nothing; re.sub(r'\s+', ' ', text.strip()), then the
\* characters that are not kept are removed
CleanText(text) ==
    IF text = <<>> THEN <<>>
    ELSE SelectSeq(JoinWords(SplitWords(text, <<>>)), IsKept)

LowerWord(word) == [k \in 1..Len(word) |-> LowerOf(word[k])]

\* word.capitalize()
CapitalizeWord(word) ==
    IF word = <<>> THEN <<>> ELSE UpperOf(word[1]) \o LowerWord(Tail(word))

\* those of lowercase_words the characters can spell
lowercase_words == {<<"t", "o">>, <<"a", "t">>}

\* _capitalize_properly
CapitalizeProperly(text) ==
    LET words == SplitWords(text, <<>>)
    IN JoinWords([k \in 1..Len(words) |->
                    IF k = 1 \/ LowerWord(words[k]) \notin lowercase_words
                    THEN CapitalizeWord(words[k]) ELSE LowerWord(words[k])])

\* a price in thousandths of a rand
Thousandths(n) == [kind |-> "number", thousandths |-> n]

\* round(float(price), 2) of a price that is no tie
RoundPrice(n) == ((n + 5) \div 10) * 10

\* a record for cleaning: the keys it has and their values
Uncleaned(has_name, name, price, currency) ==
    [has_name |-> has_name, name |-> name, price |-> price, currency |-> currency]

\* clean_product_data: float() raises for a price that is no number
CleanProductData(product) ==
    IF product.price.kind = "text" THEN [raised |-> TRUE]
    ELSE [raised |-> FALSE,
          has_name |-> product.has_name,
          name |-> IF product.has_name
                   THEN CapitalizeProperly(CleanText(product.name)) ELSE product.name,
          price |-> IF product.price.kind = "number"
                    THEN Thousandths(RoundPrice(product.price.thousandths))
                    ELSE product.price,
          currency |-> IF product.currency = "" THEN "ZAR" ELSE product.currency]

CleanInputs ==
    {[call |-> "clean_product_data", product |-> Uncleaned(has_name, name, price, currency)] :
        has_name \in {TRUE}, name \in SeqsUpTo(NameChars, MaxNameLen),
        price \in {AbsentPrice, UnparseablePrice, Thousandths(12346)},
        currency \in {"", "USD"}}
    \cup {[call |-> "clean_product_data",
           product |-> Uncleaned(FALSE, <<>>, Thousandths(1000), "")]}

\* clean_product_data is called on the record
CleanOnce ==
    /\ input.call = "clean_product_data"
    /\ ~output.returned
    /\ output' = Returned([calls |-> 1, given |-> input.product,
                           cleaned |-> CleanProductData(input.product)])
    /\ UNCHANGED <<engine_vars, tolerance, workflow_vars, input, service_vars>>

\* clean_product_data is called on what it returned
CleanAgain ==
    /\ input.call = "clean_product_data"
    /\ output.returned
    /\ output.value.calls = 1
    /\ ~output.value.cleaned.raised
    /\ output' = Returned([calls |-> 2, given |-> output.value.cleaned,
                           cleaned |-> CleanProductData(output.value.cleaned)])
    /\ UNCHANGED <<engine_vars, tolerance, workflow_vars, input, service_vars>>

CleanInit ==
    /\ Idle
    /\ input \in CleanInputs
    /\ output = NotReturned

CleanNext ==
    \/ CleanOnce
    \/ CleanAgain

CleanSpec == CleanInit /\ [][CleanNext]_vars

----------------------------------------------------------------------------
(* DataParser.parse_text, called on its own *)

\* what parse_text may be handed: a str (its lines), or a value of another type
StrText(lines) == [type |-> "str", lines |-> lines]

OtherText(type) == [type |-> type, lines |-> <<>>]

\* the OpenAI extractor: not configured, or what extract_and_parse_products does
OpenAiOutcomes == {"off", "raises", "fails", "found"}

OpenAiResult == [success |-> TRUE, products_found |-> 1, method |-> "openai"]

\* parse_text: len(text) and text[:200] are evaluated before any try
ParseText(text, openai) ==
    IF text.type \in {"NoneType", "int"}
    THEN [raised |-> TRUE, exception |-> "TypeError: object has no len()"]
    ELSE IF text.type = "dict"
    THEN [raised |-> TRUE, exception |-> "TypeError: unhashable type: 'slice'"]
    ELSE IF openai = "found"
    THEN [raised |-> FALSE, result |-> OpenAiResult]
    ELSE IF text.type = "str"
    THEN [raised |-> FALSE, result |-> ParseDenonFormat(text.lines)]
    ELSE [raised |-> FALSE,
          result |-> [success |-> FALSE, error |-> "Enhanced parsing failed",
                      method |-> "failed_parsing"]]

ParseTextInputs ==
    {[call |-> "parse_text", text |-> text, openai |-> openai] :
        text \in {StrText(lines) : lines \in Texts}
                   \cup {OtherText(type) : type \in {"NoneType", "int", "dict", "bytes", "list"}},
        openai \in OpenAiOutcomes}

\* one call of parse_text
CallParseText ==
    /\ input.call = "parse_text"
    /\ ~output.returned
    /\ output' = Returned(ParseText(input.text, input.openai))
    /\ UNCHANGED <<engine_vars, tolerance, workflow_vars, input, service_vars>>

ParseTextInit ==
    /\ Idle
    /\ input \in ParseTextInputs
    /\ output = NotReturned

ParseTextNext == CallParseText

ParseTextSpec == ParseTextInit /\ [][ParseTextNext]_vars

----------------------------------------------------------------------------
(* app.py: compare_products_sqlantern, GET /api/products/compare *)

\* the number of requests
MaxRequests == 3

\* (datetime.now() - last_update_time).seconds < 300
cache_seconds == 300

\* the seconds between a request and the one before it (or the start):
\* up to five minutes, a day, a day and up to five minutes
Delays == {0, 299, 300, 301, 86399, 86400, 86699, 86700}

\* timedelta.seconds of a difference of age seconds, age >= 0: the seconds
\* within the day, the whole days being in timedelta.days
Seconds(age) == age % 86400

\* a request arrives delay seconds after the one before: the cached result
\* is returned if it counts as recent, else a fresh comparison is computed
\* and stored, unless the analyzer raises (500, nothing stored)
CompareProductsSqlantern ==
    /\ input.call = "compare_products_sqlantern"
    /\ served < MaxRequests
    /\ served' = served + 1
    /\ \E delay \in Delays : now' = now + delay
    /\ IF /\ last_comparison_result.stored
          /\ last_update_time.set
          /\ Seconds(now' - last_update_time.at) < cache_seconds
       THEN /\ output' = Returned([code |-> 200, result |-> last_comparison_result])
            /\ UNCHANGED <<last_comparison_result, last_update_time>>
       ELSE \E computed \in BOOLEAN :
               IF computed
               THEN /\ last_comparison_result' = [stored |-> TRUE, timestamp |-> now']
                    /\ last_update_time' = [set |-> TRUE, at |-> now']
                    /\ output' = Returned([code |-> 200, result |-> last_comparison_result'])
               ELSE /\ output' = Returned([code |-> 500, result |-> NoResult])
                    /\ UNCHANGED <<last_comparison_result, last_update_time>>
    /\ UNCHANGED <<engine_vars, tolerance, workflow_vars, input, job_vars>>

CacheInit ==
    /\ Idle
    /\ input = [call |-> "compare_products_sqlantern"]
    /\ output = NotReturned

CacheNext == CompareProductsSqlantern

CacheSpec == CacheInit /\ [][CacheNext]_vars

----------------------------------------------------------------------------
(* async_processor.py: AsyncProcessor, one job, its worker thread and a poller *)

\* the statements of the try block of _process_file, in order: an
\* assignment to a key of self.jobs[job_id], or a call that may fail
Assignment(key, value) == [kind |-> "assign", key |-> key, value |-> value]

Call(name, may_fail) == [kind |-> "call", name |-> name, may_fail |-> may_fail]

ProcessFile ==
    << Assignment("progress", 10), Assignment("status", "extracting_text"),
       Call("file.save", FALSE),
       Assignment("progress", 30),
       Call("import", TRUE),
       Assignment("progress", 50), Assignment("status", "extracting_text"),
       Call("extract_text_from_pdf", TRUE),
       Assignment("progress", 70), Assignment("status", "parsing_products"),
       Call("parse_text", TRUE),
       Assignment("progress", 90), Assignment("status", "validating_data"),
       Call("validate_product_batch", FALSE),
       Assignment("progress", 100), Assignment("status", "completed"),
       Assignment("completed_at", "now"), Assignment("result", "result") >>

\* start_processing stores the job and starts the thread
StartProcessing ==
    /\ input.call = "start_processing"
    /\ worker_pc = 0
    /\ job' = [status |-> "processing", progress |-> 0, result |-> "None",
               error |-> "None", completed_at |-> "None"]
    /\ worker_pc' = 1
    /\ UNCHANGED <<engine_vars, tolerance, workflow_vars, call_vars, cache_vars, observed>>

\* the thread executes an assignment
Assign ==
    /\ worker_pc \in 1..Len(ProcessFile)
    /\ ProcessFile[worker_pc].kind = "assign"
    /\ job' = [job EXCEPT ![ProcessFile[worker_pc].key] = ProcessFile[worker_pc].value]
    /\ worker_pc' = worker_pc + 1
    /\ UNCHANGED <<engine_vars, tolerance, workflow_vars, call_vars, cache_vars, observed>>

\* the thread makes a call: it returns, it reports a failure (the import
\* fails, the result has success = false) and the thread goes on to set
\* status and error and to return, or it raises and the handler does the same
CallOut ==
    /\ worker_pc \in 1..Len(ProcessFile)
    /\ ProcessFile[worker_pc].kind = "call"
    /\ \E outcome \in {"returns", "fails", "raises"} :
          /\ outcome = "fails" => ProcessFile[worker_pc].may_fail
          /\ worker_pc' = IF outcome = "returns" THEN worker_pc + 1 ELSE Len(ProcessFile) + 2
    /\ UNCHANGED <<engine_vars, tolerance, workflow_vars, call_vars, cache_vars, job, observed>>

\* self.jobs[job_id]['status'] = 'error'
SetErrorStatus ==
    /\ worker_pc = Len(ProcessFile) + 2
    /\ job' = [job EXCEPT !.status = "error"]
    /\ worker_pc' = Len(ProcessFile) + 3
    /\ UNCHANGED <<engine_vars, tolerance, workflow_vars, call_vars, cache_vars, observed>>

\* self.jobs[job_id]['error'] = ..., and the thread ends
SetError ==
    /\ worker_pc = Len(ProcessFile) + 3
    /\ job' = [job EXCEPT !.error = "error"]
    /\ worker_pc' = Len(ProcessFile) + 1
    /\ UNCHANGED <<engine_vars, tolerance, workflow_vars, call_vars, cache_vars, observed>>

\* the poller calls get_status and reads the job
GetStatus ==
    /\ input.call = "start_processing"
    /\ observed' = job
    /\ UNCHANGED <<engine_vars, tolerance, workflow_vars, call_vars, cache_vars, job, worker_pc>>

JobInit ==
    /\ Idle
    /\ input = [call |-> "start_processing"]
    /\ output = NotReturned

JobNext ==
    \/ StartProcessing
    \/ Assign
    \/ CallOut
    \/ SetErrorStatus
    \/ SetError
    \/ GetStatus

JobSpec == JobInit /\ [][JobNext]_vars

----------------------------------------------------------------------------
(* product_analyzer.py: ProductStatusAnalyzer.compare_products, called on its own *)

\* the longest catalog and the longest pricelist
MaxCatalog == 2
MaxPricelist == 2

\* Decimal('0.01'), prices being in thousandths
price_difference_threshold == 10

\* a ProductData; opencart_id is 0 for None
ProductData(sku, model, price, status, opencart_id) ==
    [sku |-> sku, model |-> model, price |-> price, status |-> status,
     opencart_id |-> opencart_id]

\* what get_opencart_products returns: the rows in product_id order, the
\* product_id being the position
CatalogRows ==
    {ProductData(sku, model, 1000, "online", 0) :
        sku \in {"", "S1"}, model \in {"", "M1"}} \ {ProductData("", "", 1000, "online", 0)}

Catalogs ==
    {[k \in 1..Len(rows) |-> [rows[k] EXCEPT !.opencart_id = k]] :
        rows \in SeqsUpTo(CatalogRows, MaxCatalog)}

PricelistProducts ==
    {ProductData(sku, model, price, "add", 0) :
        sku \in {"", "S1"}, model \in {"M1", "M2"}, price \in {1000, 1010, 1011}}

\* {p.sku: p for p in opencart_products if p.sku}[key], and the same for the
\* model: the last product with the key; <<>> when the key is not in the dict
Lookup(opencart_products, field, key) ==
    LET holders == {k \in 1..Len(opencart_products) : opencart_products[k][field] = key}
    IN IF key = "" \/ holders = {} THEN <<>>
       ELSE <<opencart_products[CHOOSE k \in holders : \A j \in holders : j <= k]>>

\* OpencartMatch trying the model before the SKU
OpencartMatchModelFirst(pricelist_product, opencart_products) ==
    IF Lookup(opencart_products, "model", pricelist_product.model) # <<>>
    THEN Lookup(opencart_products, "model", pricelist_product.model)
    ELSE Lookup(opencart_products, "sku", pricelist_product.sku)

\* the match of a pricelist product: by SKU, else by model; <<>> for None
OpencartMatch(pricelist_product, opencart_products) ==
    IF Lookup(opencart_products, "sku", pricelist_product.sku) # <<>>
    THEN Lookup(opencart_products, "sku", pricelist_product.sku)
    ELSE Lookup(opencart_products, "model", pricelist_product.model)

\* the pricelist product with its status and opencart_id set
Compared(pricelist_product, opencart_products) ==
    LET opencart_match == OpencartMatch(pricelist_product, opencart_products)
    IN IF opencart_match = <<>> THEN [pricelist_product EXCEPT !.status = "add"]
       ELSE [pricelist_product EXCEPT
                !.status = IF Abs(pricelist_product.price - opencart_match[1].price)
                                 > price_difference_threshold
                           THEN "price" ELSE "online",
                !.opencart_id = opencart_match[1].opencart_id]

RECURSIVE Removed(_, _)
\* the OpenCart products whose id is not in opencart_matched, as REMOVE
Removed(opencart_products, opencart_matched) ==
    IF opencart_products = <<>> THEN <<>>
    ELSE (IF Head(opencart_products).opencart_id \in opencart_matched THEN <<>>
          ELSE <<[Head(opencart_products) EXCEPT !.status = "remove"]>>)
         \o Removed(Tail(opencart_products), opencart_matched)

\* the number of products with the status
CountStatus(products, status) ==
    Cardinality({k \in 1..Len(products) : products[k].status = status})

\* compare_products
CompareProducts(pricelist_products, opencart_products) ==
    LET from_pricelist == [k \in 1..Len(pricelist_products) |->
                              Compared(pricelist_products[k], opencart_products)]
        opencart_matched == {from_pricelist[k].opencart_id :
                                k \in {n \in 1..Len(from_pricelist) :
                                          from_pricelist[n].status # "add"}}
        compared_products == from_pricelist \o Removed(opencart_products, opencart_matched)
    IN [products |-> compared_products,
        summary |-> [online |-> CountStatus(compared_products, "online"),
                     add |-> CountStatus(compared_products, "add"),
                     remove |-> CountStatus(compared_products, "remove"),
                     price |-> CountStatus(compared_products, "price"),
                     update |-> CountStatus(compared_products, "update")],
        total_products |-> Len(compared_products)]

AnalyzerInputs ==
    {[call |-> "ProductStatusAnalyzer.compare_products",
      pricelist_products |-> pricelist_products, opencart_products |-> opencart_products] :
        pricelist_products \in SeqsUpTo(PricelistProducts, MaxPricelist),
        opencart_products \in Catalogs}

\* one call of compare_products
AnalyzerCompare ==
    /\ input.call = "ProductStatusAnalyzer.compare_products"
    /\ ~output.returned
    /\ output' = Returned(CompareProducts(input.pricelist_products, input.opencart_products))
    /\ UNCHANGED <<engine_vars, tolerance, workflow_vars, input, service_vars>>

AnalyzerInit ==
    /\ Idle
    /\ input \in AnalyzerInputs
    /\ output = NotReturned

AnalyzerNext == AnalyzerCompare

AnalyzerSpec == AnalyzerInit /\ [][AnalyzerNext]_vars

----------------------------------------------------------------------------
(* What the properties below speak of *)

\* the processing of record i has just ended (by return or by the handler)
JustProcessed == pc = "loop" /\ i >= 1

LastOutcome == comparison_results[Len(comparison_results)]

RECURSIVE ReturnedAnalyses(_, _)
\* the analysis of every catalog entry the replies rs returned, in order
ReturnedAnalyses(pdf_product, rs) ==
    IF rs = <<>> THEN <<>>
    ELSE (IF Head(rs).kind = "return" /\ Head(rs).success
          THEN AnalyzeAll(pdf_product, Head(rs).results) ELSE <<>>)
         \o ReturnedAnalyses(pdf_product, Tail(rs))

\* the candidates: the returned entries that score above the floor
Candidates(pdf_product, rs) ==
    SelectSeq(ReturnedAnalyses(pdf_product, rs),
              LAMBDA m : m.overall_similarity > search_result_floor)

\* the highest overall_similarity of the analyses, 0 for none
BestSimilarity(analyses) ==
    IF analyses = <<>> THEN 0
    ELSE LET scores == {analyses[k].overall_similarity : k \in 1..Len(analyses)}
         IN CHOOSE best \in scores : \A other \in scores : other <= best

\* the first of the analyses with the highest overall_similarity
BestOf(analyses) ==
    analyses[CHOOSE k \in 1..Len(analyses) :
                /\ analyses[k].overall_similarity = BestSimilarity(analyses)
                /\ \A j \in 1..(k - 1) : analyses[j].overall_similarity
                                            < BestSimilarity(analyses)]

\* the price of entry differs from the record's by at most percent per cent
\* (a record price that is not above 0 counts as no difference)
WithinPercent(pdf_product, entry, percent) ==
    LET pdf_price == PdfPrice(pdf_product).cents
        oc_price == OcPrice(entry.price).cents
    IN pdf_price > 0 => Abs(pdf_price - oc_price) * 100 <= percent * pdf_price

\* every adapter call for the current record failed: raised or success = false
EveryCallFailed ==
    /\ replies # <<>>
    /\ \A k \in 1..Len(replies) : replies[k].kind = "raise" \/ ~replies[k].success

\* every adapter call for the current record returned an empty result list
EveryCallEmpty ==
    /\ replies # <<>>
    /\ \A k \in 1..Len(replies) : replies[k].kind = "return" /\ replies[k].results = <<>>

----------------------------------------------------------------------------
(* Properties *)

\* C1: in every report compare_products returns with success, the total
\* equals exact_matches + price_differences + missing_products, and the
\* report details one outcome per record
C1_SummaryPartition ==
    (report.returned /\ report.success) =>
        /\ report.summary.total_pdf_products
              = report.summary.exact_matches + report.summary.price_differences
                + report.summary.missing_products
        /\ report.summary.total_pdf_products = Len(pdf_products)
        /\ Len(report.detailed_results) = Len(pdf_products)

C1_Witness ==
    /\ report.returned
    /\ report.summary.total_pdf_products = 2
    /\ report.summary.search_errors = 1
    /\ report.summary.exact_matches = 1

\* C2: when the record has candidates, the status follows the first best
\* candidate: at or above the threshold it is match_found if the price
\* difference is at most the tolerance and price_different otherwise, below
\* the threshold it is missing
C2_Classification ==
    (JustProcessed /\ Candidates(pdf_products[i], replies) # <<>>) =>
        LET best == BestOf(Candidates(pdf_products[i], replies))
            within == best.price_difference_percent.num
                          <= tolerance * best.price_difference_percent.den
        IN LastOutcome.status =
              IF best.overall_similarity >= name_similarity_threshold
              THEN (IF within THEN "match_found" ELSE "price_different")
              ELSE "missing"

\* both boundaries at once: similarity exactly 0.7, difference exactly 5 %
C2_Witness ==
    /\ JustProcessed
    /\ Candidates(pdf_products[i], replies) # <<>>
    /\ LET best == BestOf(Candidates(pdf_products[i], replies))
       IN /\ best.overall_similarity = name_similarity_threshold
          /\ best.price_difference_percent.num
                = price_tolerance_percent * best.price_difference_percent.den
          /\ best.price_difference_percent.num > 0
    /\ tolerance = price_tolerance_percent
    /\ LastOutcome.status = "match_found"

\* C3: an outcome match_found carries exactly one catalog entry, priced
\* within the tolerance of the record; an outcome price_different carries
\* exactly one, priced beyond the tolerance; the confidence of both is at
\* least the threshold
C3_MatchedOutcomes ==
    \A k \in 1..Len(comparison_results) :
        LET outcome == comparison_results[k]
        IN outcome.status \in {"match_found", "price_different"} =>
              /\ Len(outcome.opencart_matches) = 1
              /\ outcome.match_confidence >= name_similarity_threshold
              /\ OcPrice(outcome.opencart_matches[1].price).ok
              /\ (outcome.status = "match_found")
                    = WithinPercent(outcome.pdf_product, outcome.opencart_matches[1], tolerance)

C3_Witness ==
    \E j, k \in 1..Len(comparison_results) :
        /\ comparison_results[j].status = "match_found"
        /\ comparison_results[k].status = "price_different"
        /\ PdfPrice(comparison_results[j].pdf_product).cents > 0

NothingCameBack(pdf_product) == Classify(pdf_product, <<>>, tolerance).result.recommendations

C6_FailuresSurfaced ==
    (JustProcessed /\ EveryCallFailed) =>
        /\ LastOutcome.status = "missing"
        /\ i \notin raised
        /\ search_errors # <<>>

\* C7: every record processed so far is reported exactly once and in input
\* order, a record whose processing raised as missing; search_errors has one
\* entry per raised record; the returned report covers the whole input
C7_NoAbort ==
    /\ Len(comparison_results) = (IF pc = "search" THEN i - 1 ELSE i)
    /\ \A k \in 1..Len(comparison_results) :
          /\ comparison_results[k].pdf_product = pdf_products[k]
          /\ k \in raised => /\ comparison_results[k].status = "missing"
                             /\ comparison_results[k].pdf_product \in
                                   {missing_products[m] : m \in 1..Len(missing_products)}
    /\ Len(search_errors) = Cardinality(raised)
    /\ report.returned =>
          /\ Len(report.detailed_results) = Len(pdf_products)
          /\ report.detailed_results = comparison_results
          /\ Len(report.search_errors) = Cardinality(raised)

\* the first record raised, the second was still searched and matched
C7_Witness ==
    /\ report.returned
    /\ Len(pdf_products) = 2
    /\ raised = {1}
    /\ report.detailed_results[2].status = "match_found"

\* C8: a batch of n >= 1 records sleeps n-1 times, once after every record
\* but the last
C8_DelayBetweenRecords ==
    (report.returned /\ Len(pdf_products) >= 1) =>
        /\ Len(delays) = Len(pdf_products) - 1
        /\ \A k \in 1..Len(delays) : delays[k] = k

\* C9: the terms of the record are sent to the adapter one by one in list
\* order, whatever the earlier replies were; the classification starts only
\* when all were sent; the candidates are those of the replies, a call that
\* raised adding as little as one that returned nothing
C9_EveryTermSearched ==
    pc = "search" =>
        /\ search_terms = GenerateSearchTerms(pdf_products[i])
        /\ term_idx <= Len(search_terms) + 1
        /\ calls = SubSeq(search_terms, 1, term_idx - 1)
        /\ Len(replies) = Len(calls)
        /\ all_matches = Candidates(pdf_products[i], replies)

\* all three terms sent: a hit on the first, an exception on the second, and
\* the third still searched and adding a candidate
C9_Witness ==
    /\ pc = "search"
    /\ term_idx = Len(search_terms) + 1
    /\ Len(calls) = 3
    /\ replies[1].kind = "return" /\ replies[1].results # <<>>
    /\ replies[2].kind = "raise"
    /\ replies[3].kind = "return" /\ replies[3].results # <<>>
    /\ Len(all_matches) = 2

\* C10: the list a workflow gives to compare_products holds only records
\* that validate_product finds valid
C10_OnlyValidCompared ==
    caller = "workflow" =>
        \A k \in 1..Len(pdf_products) : ValidateProduct(pdf_products[k]).is_valid

\* what validate_product was called with and what it returned
Validated == output.returned /\ input.call = "validate_product"

\* C11 as claimed: validate_product scores a record with empty name and
\* price 0 at exactly 0.0, a record with a name of at least 3 characters and
\* a price of at least 1.0 at exactly 1.0, and every record within [0, 1]
C11_EmptyRecordScoresZero ==
    Validated =>
        LET product == input.product
            result == output.value
        IN /\ (product.name = <<>> /\ PriceOrZero(product) = 0)
                 => result.confidence_score = 0
           /\ (NameLength(product.name) >= min_name_length /\ PriceOrZero(product) >= min_price)
                 => result.confidence_score = 1000
           /\ result.confidence_score \in 0..1000

\* C11 as amended: validate_product scores a record with empty name and
\* price 0 at 1.0 - 0.3 - 0.4 = 0.3, a record with a name of at least 3
\* characters and a price of at least 1.0 at exactly 1.0, and every record
\* within [0, 1]
C11_EmptyRecordScoresThreeTenths ==
    Validated =>
        LET product == input.product
            result == output.value
        IN /\ (product.name = <<>> /\ PriceOrZero(product) = 0)
                 => result.confidence_score = 300
           /\ (NameLength(product.name) >= min_name_length /\ PriceOrZero(product) >= min_price)
                 => result.confidence_score = 1000
           /\ result.confidence_score \in 0..1000

\* the record {'name': '', 'price': 0} validated
C11_Witness ==
    /\ Validated
    /\ input.product.name = <<>>
    /\ input.product.price = Number(0)
    /\ output.value.confidence_score = 300
    /\ ~output.value.is_valid

\* C12: is_valid is true if and only if the name has at least
\* min_name_length characters and the price is above 0; a price above 0 and
\* below 1.0 adds a warning and a penalty of 0.1 and leaves is_valid true
C12_ValidIffNameAndPrice ==
    Validated =>
        LET product == input.product
            result == output.value
            name_ok == NameLength(product.name) >= min_name_length
            price == PriceOrZero(product)
        IN /\ result.is_valid = (name_ok /\ price > 0)
           /\ (name_ok /\ price > 0 /\ price < min_price)
                 => /\ result.is_valid
                    /\ result.warnings # <<>>
                    /\ result.errors = <<>>
                    /\ result.confidence_score = 900

\* a record with a good name priced R0.99
C12_Witness ==
    /\ Validated
    /\ NameLength(input.product.name) >= min_name_length
    /\ input.product.price = Number(99)
    /\ output.value.is_valid
    /\ output.value.warnings # <<>>

\* what _parse_denon_format was called with and what it returned
Parsed == output.returned /\ input.call = "_parse_denon_format"

ReturnedProducts == SetOf(output.value.products)

\* C13 as claimed: every product _parse_denon_format returns has a
\* non-empty name and a price above 0
C13_NameAndPrice ==
    Parsed => \A product \in ReturnedProducts :
                 /\ product.name # <<>>
                 /\ product.price.kind = "number"
                 /\ product.price.cents > 0

\* C13 as amended: every product _parse_denon_format returns has a
\* non-empty name and a price above 0 or, failing the price, a non-empty
\* model; a product without a price comes from the primary pass only
C13_NameAndPriceOrModel ==
    Parsed =>
        /\ \A product \in ReturnedProducts :
              /\ product.name # <<>>
              /\ \/ product.price.kind = "number" /\ product.price.cents > 0
                 \/ product.price = AbsentPrice /\ product.model # ""
        /\ output.value.products # PrimaryParse(input.lines)
              => \A product \in ReturnedProducts : product.price.cents > 0

\* a product with a model and no price is returned, next to a line that names
\* neither model nor price and yields nothing
C13_Witness ==
    /\ Parsed
    /\ \E product \in ReturnedProducts : product.price = AbsentPrice /\ product.model # ""
    /\ ln_bare \in SetOf(input.lines)
    /\ \A product \in ReturnedProducts : product.name # ln_bare.clean_name

\* C14: of a line with two or more distinct prices the product gets the
\* smallest as price and the largest as old_price, of a line with one price it
\* gets that price and no old_price (texts of one line, so that the prices
\* of the product are those of the line)
C14_SmallestAndLargest ==
    (Parsed /\ Len(input.lines) = 1) =>
        LET values == SetOf(input.lines[1].prices)
        IN \A product \in ReturnedProducts :
              /\ Cardinality(values) >= 2 =>
                    /\ product.price.kind = "number"
                    /\ product.old_price.kind = "number"
                    /\ \A v \in values : product.price.cents <= v /\ v <= product.old_price.cents
              /\ Cardinality(values) = 1 =>
                    /\ product.price.cents \in values
                    /\ product.old_price = AbsentPrice

\* C15: _alternative_parse is called if and only if the primary pass found
\* fewer than 5 products, and its list is returned only if it is longer than
\* the primary's; else the primary's list is returned as it is
C15_AlternativeOnlyIfLonger ==
    Parsed =>
        LET primary == PrimaryParse(input.lines)
            alternative == AlternativeParse(input.lines)
            result == output.value
        IN /\ result.alternative_tried = (Len(primary) < min_primary_products)
           /\ result.products =
                 IF Len(primary) < min_primary_products /\ Len(alternative) > Len(primary)
                 THEN alternative ELSE primary
           /\ result.products_found = Len(result.products)

\* five products from the primary pass, six lines the alternative pass would
\* accept: it is not tried and the five are returned
C15_Witness ==
    /\ Parsed
    /\ Len(PrimaryParse(input.lines)) = min_primary_products
    /\ Len(AlternativeParse(input.lines)) > min_primary_products
    /\ ~output.value.alternative_tried
    /\ output.value.products = PrimaryParse(input.lines)

\* what _generate_search_terms was called with and what it returned
TermsGenerated == output.returned /\ input.call = "_generate_search_terms"

\* the five terms in specificity order, '' where the record gives none
TermsBySpecificity(pdf_product) ==
    LET name == pdf_product.name
        model == pdf_product.model
        brand == pdf_product.brand
        words == MeaningfulWords(name)
    IN << model,
          IF brand # "" /\ model # "" THEN brand \o " " \o model ELSE "",
          IF Len(words) >= 2 THEN Join(Take(words, name_words_in_term)) ELSE "",
          IF brand # "" /\ name # <<>>
          THEN brand \o " " \o Join(Take(name, name_words_in_term)) ELSE "",
          brand >>

\* C16: the terms are at most 5, non-empty and pairwise distinct, and they
\* are the five terms in specificity order with the empty ones and every
\* repetition of an earlier one left out
C16_OrderedDistinctTerms ==
    TermsGenerated =>
        LET terms == output.value
            ordered == TermsBySpecificity(input.pdf_product)
            kept == {k \in 1..Len(ordered) :
                        ordered[k] # "" /\ \A j \in 1..(k - 1) : ordered[j] # ordered[k]}
        IN /\ Len(terms) <= max_search_terms
           /\ \A k \in 1..Len(terms) : terms[k] # ""
           /\ \A j, k \in 1..Len(terms) : j # k => terms[j] # terms[k]
           /\ Len(terms) = Cardinality(kept)
           /\ \A n \in 1..Len(terms) : terms[n] = ordered[SortedSeq(kept)[n]]

\* a record whose brand + name repeats its brand + model: three terms of five
C16_Witness ==
    /\ TermsGenerated
    /\ input.pdf_product = Record(<<"AVR-X580BT">>, "AVR-X580BT", "Denon", AbsentPrice)
    /\ output.value = <<"AVR-X580BT", "Denon AVR-X580BT", "Denon">>

\* what _analyze_match was called with and what it returned
Analyzed == output.returned /\ input.call = "_analyze_match"

\* C17: a similarity is the ratio of the two strings, 0 if either is empty;
\* overall_similarity is 0.8 model + 0.2 name when the model similarity is
\* above 0.8 and 0.7 name + 0.3 model otherwise; (model 0.9, name 0.1) gives
\* 0.74 and (model 0.5, name 0.9) gives 0.78 (when neither price makes the
\* analysis fall back to zeros)
C17_WeightedSimilarity ==
    (Analyzed /\ OcPrice(input.hit.product.price).ok) =>
        LET analysis == output.value
            pdf_product == input.pdf_product
            oc_product == input.hit.product
            name == IF pdf_product.name = <<>> \/ oc_product.name = ""
                    THEN 0 ELSE input.hit.name_ratio
            model == IF pdf_product.model = "" \/ oc_product.model = ""
                     THEN 0 ELSE input.hit.model_ratio
        IN /\ analysis.name_similarity = name
           /\ analysis.model_similarity = model
           /\ analysis.overall_similarity * 10 =
                 IF model > 800 THEN 8 * model + 2 * name ELSE 7 * name + 3 * model
           /\ (model = 900 /\ name = 100) => analysis.overall_similarity = 740
           /\ (model = 500 /\ name = 900) => analysis.overall_similarity = 780

\* the model similarity exactly 0.8 with the name similarity 1.0: the name
\* weighting gives 0.94
C17_Witness ==
    /\ Analyzed
    /\ output.value.model_similarity = 800
    /\ output.value.name_similarity = 1000
    /\ output.value.overall_similarity = 940

\* C18: a record whose price is 0 has price_difference_percent 0 against
\* every catalog entry; when its best candidate reaches the threshold it is
\* match_found, and no outcome of such a record is price_different,
\* whatever the catalog price and the tolerance
C18_FreeRecordNeverPriceDifferent ==
    /\ \A k \in 1..Len(comparison_results) :
          PdfPrice(comparison_results[k].pdf_product) = [ok |-> TRUE, cents |-> 0]
              => comparison_results[k].status # "price_different"
    /\ (JustProcessed /\ PdfPrice(pdf_products[i]) = [ok |-> TRUE, cents |-> 0]) =>
          LET returned == ReturnedAnalyses(pdf_products[i], replies)
              candidates == Candidates(pdf_products[i], replies)
          IN /\ \A k \in 1..Len(returned) : returned[k].price_difference_percent.num = 0
             /\ (candidates # <<>>
                    /\ BestSimilarity(candidates) >= name_similarity_threshold)
                   => LastOutcome.status = "match_found"

\* at tolerance 0 a record without a price matches an entry that has one
C18_Witness ==
    /\ JustProcessed
    /\ tolerance = 0
    /\ PdfPrice(pdf_products[i]) = [ok |-> TRUE, cents |-> 0]
    /\ LastOutcome.status = "match_found"
    /\ OcPrice(LastOutcome.opencart_matches[1].price).cents > 0

\* C19: the entry of a match_found or price_different outcome is one of the
\* entries the record's searches returned, and no entry returned for any of
\* the record's terms has a higher overall_similarity
C19_GloballyBestEntry ==
    (JustProcessed /\ LastOutcome.status \in {"match_found", "price_different"}) =>
        LET returned == ReturnedAnalyses(pdf_products[i], replies)
        IN /\ LastOutcome.match_confidence = BestSimilarity(returned)
           /\ \E k \in 1..Len(returned) :
                 /\ returned[k].product = LastOutcome.opencart_matches[1]
                 /\ returned[k].overall_similarity = LastOutcome.match_confidence
                 /\ \A j \in 1..Len(returned) :
                       returned[j].overall_similarity <= returned[k].overall_similarity

\* an entry at the threshold came back first and a better one later, for
\* another term: the later one is attached
C19_Witness ==
    /\ JustProcessed
    /\ LastOutcome.status \in {"match_found", "price_different"}
    /\ LET returned == ReturnedAnalyses(pdf_products[i], replies)
       IN /\ Len(returned) >= 2
          /\ returned[1].overall_similarity >= name_similarity_threshold
          /\ returned[1].overall_similarity < LastOutcome.match_confidence
          /\ returned[1].product # LastOutcome.opencart_matches[1]
    /\ Len(replies) >= 2
    /\ replies[1].kind = "return" /\ replies[1].success /\ Len(replies[1].results) = 1

\* the fast endpoint has answered a request that had a list of records
FastAnswered ==
    /\ output.returned
    /\ input.call = "compare_products_fast"
    /\ input.data.has_products

\* C20: the fast comparison of N records searches only the first
\* min(N, 10) of them and answers with a successful report whose summary
\* has total N and, for each of exact_matches, price_differences and
\* missing_products, the count of the searched records times N over the
\* number searched (rounded down), with a note that it is an approximation
C20_FastReportExtrapolated ==
    FastAnswered =>
        LET posted == Len(input.data.products)
            processed == Len(pdf_products)
            extrapolated(count) == (count * posted) \div processed
        IN /\ pdf_products = Take(input.data.products, fast_limit)
           /\ output.value.status = "success"
           /\ "note" \in DOMAIN output.value.comparison
           /\ output.value.comparison.summary.total_pdf_products = posted
           /\ processed > 0 =>
                 /\ output.value.comparison.summary.exact_matches
                       = extrapolated(Len(exact_matches))
                 /\ output.value.comparison.summary.price_differences
                       = extrapolated(Len(price_differences))
                 /\ output.value.comparison.summary.missing_products
                       = extrapolated(Len(missing_products))

\* C21: the batch report has total_products = valid_products +
\* invalid_products, and its overall_quality is the band of the
\* average_confidence it reports: Excellent from 0.9, Good from 0.8, Fair
\* from 0.7, Poor from 0.6, Very Poor below (the empty batch included)
C21_QualityOfReportedAverage ==
    (output.returned /\ input.call = "validate_product_batch") =>
        LET batch_report == output.value
        IN /\ batch_report.total_products = batch_report.valid_products + batch_report.invalid_products
           /\ batch_report.overall_quality =
                 IF batch_report.average_confidence >= 90 THEN "Excellent"
                 ELSE IF batch_report.average_confidence >= 80 THEN "Good"
                 ELSE IF batch_report.average_confidence >= 70 THEN "Fair"
                 ELSE IF batch_report.average_confidence >= 60 THEN "Poor"
                 ELSE "Very Poor"

\* C22: clean_product_data is idempotent: called on a record it returned, it
\* returns that record again, field by field
C22_CleanIdempotent ==
    (output.returned /\ input.call = "clean_product_data" /\ output.value.calls = 2) =>
        output.value.cleaned = output.value.given

\* C23: parse_text never raises: a failure inside it, a non-string input
\* included, comes back as success = false with an error, and a text in
\* which no product is found as success = true with an empty product list
\* and products_found = 0
C23_ParseTextNeverRaises ==
    (output.returned /\ input.call = "parse_text") =>
        /\ ~output.value.raised
        /\ input.text.type # "str" =>
              (input.openai # "found" =>
                  /\ ~output.value.result.success
                  /\ "error" \in DOMAIN output.value.result)
        /\ (input.text.type = "str" /\ input.openai # "found"
                /\ ParseDenonFormat(input.text.lines).products = <<>>) =>
              /\ output.value.result.success
              /\ output.value.result.products = <<>>
              /\ output.value.result.products_found = 0

\* the records of the outcomes classified missing, in order
MissingRecords ==
    LET missing == SelectSeq(comparison_results, LAMBDA outcome : outcome.status = "missing")
    IN [k \in 1..Len(missing) |-> missing[k].pdf_product]

\* the workflow has gone through the automation step
Automated == wf_pc = "returned" /\ workflow.current_step = "complete"

ReferencingPrices(lines, line_index) ==
    LET identifier == IF lines[line_index].model # "" THEN lines[line_index].model
                      ELSE Join(lines[line_index].clean_name)
    IN UNION {SetOf(lines[idx].prices) :
                 idx \in {n \in 1..Len(lines) : /\ n # line_index
                                                /\ Abs(n - line_index) <= search_range
                                                /\ identifier \in lines[n].mentions}}

\* C25: a product of the primary pass comes from a line such that, when the
\* line has a price token, the product's prices are among the line's own,
\* and when it has none, they are among the prices of the lines within 3
\* lines that reference the product; a price of a neighbouring line that
\* does not reference it is never attributed to it
C25_PricesOnlyFromReferencingLines ==
    (Parsed /\ output.value.products = PrimaryParse(input.lines)) =>
        \A product \in ReturnedProducts :
            LET attributed == {price.cents : price \in {q \in {product.price, product.old_price} :
                                                            q.kind = "number"}}
            IN \E idx \in 1..Len(input.lines) :
                  /\ input.lines[idx].clean_name = product.name
                  /\ input.lines[idx].model = product.model
                  /\ attributed \subseteq
                        (IF input.lines[idx].prices # <<>>
                         THEN SetOf(input.lines[idx].prices)
                         ELSE ReferencingPrices(input.lines, idx))

\* C26: /api/products/compare answers with the cached result only if it was
\* stored less than 300 seconds before the request; from 300 seconds on,
\* ages of a day and more included, the result it answers with is fresh
C26_CachedOnlyIfRecent ==
    (input.call = "compare_products_sqlantern" /\ output.returned
        /\ output.value.code = 200) =>
        now - output.value.result.timestamp < cache_seconds

\* C27: whatever the interleaving of the worker thread and the poller, a
\* poller that sees status 'completed' also sees progress 100 and a result,
\* and a poller that sees status 'error' sees an error and no result
C27_PollerSeesWholeOutcome ==
    /\ observed.status = "completed" =>
          /\ observed.progress = 100
          /\ observed.result # "None"
    /\ observed.status = "error" =>
          /\ observed.error # "None"
          /\ observed.result = "None"

\* start_workflow has returned
WorkflowReturned == wf_pc = "returned"

\* C28: after start_workflow returns the status is COMPLETED or FAILED, and
\* COMPLETED comes with current_step COMPLETE and with completed_at and
\* total_duration set, also when the parser found no product
C28_CompletedIsComplete ==
    WorkflowReturned =>
        /\ workflow.status \in {"completed", "failed"}
        /\ workflow.status = "completed" =>
              /\ workflow.current_step = "complete"
              /\ workflow.completed_at
              /\ workflow.total_duration

\* C29: once the upload step has created the temporary PDF, the file is
\* deleted by the time the workflow is COMPLETED (after the whole pipeline
\* or early) or FAILED
C29_TempFileDeleted ==
    (WorkflowReturned /\ temp_file # "none") => temp_file = "deleted"

\* ProductStatusAnalyzer.compare_products has returned
StatusCompared == output.returned /\ input.call = "ProductStatusAnalyzer.compare_products"

\* C30: the result lists every pricelist product once, as ONLINE, PRICE or
\* ADD: ADD when no catalog product has its SKU or its model, else matched
\* by SKU before model, PRICE iff the prices differ by more than 0.01; then
\* every catalog product no pricelist product matched once, as REMOVE, and
\* no matched one; the five summary counts add up to total_products
C30_StatusPartition ==
    StatusCompared =>
        LET pricelist == input.pricelist_products
            catalog == input.opencart_products
            products == output.value.products
            summary == output.value.summary
            by_sku(k) == {j \in 1..Len(catalog) :
                             catalog[j].sku = pricelist[k].sku /\ catalog[j].sku # ""}
            by_model(k) == {j \in 1..Len(catalog) :
                               catalog[j].model = pricelist[k].model /\ catalog[j].model # ""}
            matches(k) == IF by_sku(k) # {} THEN by_sku(k) ELSE by_model(k)
            matched == {products[k].opencart_id :
                           k \in {n \in 1..Len(pricelist) : products[n].status # "add"}}
            removed == SelectSeq(catalog, LAMBDA row : row.opencart_id \notin matched)
        IN /\ Len(products) = Len(pricelist) + Len(removed)
           /\ \A k \in 1..Len(pricelist) :
                 /\ products[k].sku = pricelist[k].sku
                 /\ products[k].model = pricelist[k].model
                 /\ products[k].status \in {"online", "price", "add"}
                 /\ products[k].status = "add" <=> matches(k) = {}
                 /\ products[k].status # "add" =>
                       /\ products[k].opencart_id \in matches(k)
                       /\ products[k].status = "price" <=>
                             Abs(pricelist[k].price - catalog[products[k].opencart_id].price)
                                > price_difference_threshold
           /\ \A k \in 1..Len(removed) :
                 /\ products[Len(pricelist) + k].status = "remove"
                 /\ products[Len(pricelist) + k].opencart_id = removed[k].opencart_id
           /\ summary.online + summary.add + summary.remove + summary.price + summary.update
                 = output.value.total_products
           /\ output.value.total_products = Len(products)

\* a pricelist product whose SKU is one catalog product's and whose model is
\* another's: it is matched by SKU, with a price difference, and the other
\* catalog product is to be removed
C30_Witness ==
    /\ StatusCompared
    /\ Len(input.pricelist_products) = 1
    /\ Len(input.opencart_products) = 2
    /\ input.opencart_products[1].sku = input.pricelist_products[1].sku
    /\ input.opencart_products[1].model # input.pricelist_products[1].model
    /\ input.opencart_products[2].model = input.pricelist_products[1].model
    /\ input.opencart_products[2].sku # input.pricelist_products[1].sku
    /\ output.value.products[1].status = "price"
    /\ output.value.products[1].opencart_id = 1
    /\ output.value.products[2].status = "remove"
    /\ output.value.products[2].opencart_id = 2
    /\ output.value.total_products = 2

====
